---- MODULE Spec2Model ----
(***************************************************************************)
(* Query orchestration engine of the Heroes chatbot backend.               *)
(*                                                                         *)
(* One request = one call of generate_response_unified, which builds the   *)
(* initial OrchestrationState and drives the compiled graph                *)
(*   START -> router -> {langchain_rag, rag_loader, rest_api,              *)
(*                       mentor_agent} -> ... -> mentor_agent -> END.      *)
(* Texts are sequences of tokens (the empty text is <<>>); an Optional     *)
(* value is a sequence of length 0 (None) or 1.  Confidence is counted in  *)
(* hundredths.                                                             *)
(***************************************************************************)
EXTENDS Integers, Sequences, FiniteSets, TLC

VARIABLES
    variant,        \* source tree of the node bodies: "final" or "final_re"
    store,          \* the data files under the RAG directory (read-only)
    bm25_installed, \* whether `import rank_bm25` succeeds in this process
    cache_initialized, \* rag_service._cache_initialized (process-wide)
    cache,          \* rag_service's cached rows (process-wide) and how often they were loaded
    retriever_cache, \* langchain_rag._retriever_cache: the BM25 retriever of each persona (Optional)
    pipelines,      \* calls of run_rag_pipeline in flight, each at its next await
    other,          \* a second run of the process, suspended at an await (Optional)
    user_message,   \* the request text, as the keyword features the code tests
    session,        \* the session_id argument of generate_response_unified (Optional)
    state,          \* OrchestrationState of the run in progress
    pc,             \* node the graph executes next, "done" once the reply is returned
    visited,        \* nodes executed so far in this run, in order
    steps,          \* edges of the graph taken so far in this run
    result,         \* text returned by generate_response_unified (Optional)
    graph_exc,      \* text of the exception that left ainvoke (Optional)
    calls,          \* collaborator calls made by this run
    first_pass,     \* validation written by langchain_rag_node (Optional)
    failed,         \* some node body or the graph hit an exception in this run
    run_no,         \* number of the request being served
    ref             \* what the previous request with the same text did (Optional)

vars == <<variant, store, bm25_installed, cache_initialized, cache, retriever_cache, pipelines,
          other, user_message,
          session, state, pc, visited, steps, result, graph_exc, calls, first_pass, failed, run_no, ref>>

-----------------------------------------------------------------------------
(* Bounds of the model *)

MaxSteps == 10
MaxRuns == 2
CorpusSize == 7

-----------------------------------------------------------------------------
(* Values *)

None == <<>>
Some(x) == <<x>>

Truthy(opt) == opt # None /\ opt[1] # <<>>

Min(a, b) == IF a < b THEN a ELSE b

Get(s, key, default) == IF key \in DOMAIN s THEN s[key] ELSE default

RagTopK == 5
RefineTopK == 10
RefineThreshold == 60
MaxRefinements == 1

Intents == {"SMALLTALK", "COMPANY_METRICS", "COMPANY_ANALYSIS", "COMPARE_COMPANIES",
            "MACRO_OUTLOOK", "PHILOSOPHY", "NEWS_ANALYSIS", "RESEARCH_ANALYSIS",
            "HISTORICAL_DATA"}

Nodes == {"router", "langchain_rag", "refine_rag", "rag_loader", "rest_api", "mentor_agent"}

(* Fixed texts of the code *)
RAG_NO_DOCS_ANSWER == <<"apology: no related information found">>
RAG_NO_DOCS_ISSUE == <<"issue: no related documents found">>
RAG_ERROR_ANSWER == <<"apology: error during RAG processing">>
RAG_ERROR_ISSUE == <<"issue: RAG processing error:">>
DRAFT_ERROR_ANSWER == <<"apology: error while generating the answer">>
VALIDATOR_ERROR_ISSUE == <<"issue: error during validation">>
RESPONSE_ERROR_PREFIX == <<"apology: error while generating the response:">>
NO_RESPONSE_APOLOGY == <<"apology: could not generate a response">>

(* Texts produced by the collaborators *)
DraftText == <<"draft">>
CorrectedText == <<"corrected">>
PersonaText == <<"persona answer">>

(* Texts of the exceptions that can be raised *)
ExcTexts == {"exc: rag cache", "exc: rank_bm25 missing", "exc: chain", "exc: confidence format",
             "exc: composer", "exc: name 'symbol' is not defined", "exc: recursion limit"}

ContainsExcText(text) == \E i \in 1..Len(text) : text[i] \in ExcTexts

-----------------------------------------------------------------------------
(* Requests.  A message is the record of the keyword tests the code makes  *)
(* on it: the coarse intent of intent_service.detect_intent, the symbols   *)
(* of the symbol resolver, and one flag per keyword list of route_query    *)
(* and of the fast-path detectors of mentor_agent_node.                    *)

Plain(text) ==
    [text |-> text, detected |-> "smalltalk", symbols |-> <<>>,
     hist_kw |-> FALSE, past_kw |-> FALSE, said_kw |-> FALSE, macro_kw |-> FALSE,
     regions |-> <<>>, metric_kw |-> FALSE, analysis_kw |-> FALSE, rag_kw |-> FALSE,
     mentor_name |-> FALSE, philosophy_kw |-> FALSE, econ_kw |-> FALSE,
     comparison_kw |-> FALSE, context_word |-> FALSE, question_hint |-> FALSE,
     price_kw |-> FALSE, metric_word |-> None]

Samsung == "005930"
Hynix == "000660"

Messages ==
    { Plain("hello"),
      [Plain("Samsung PER tell me") EXCEPT !.detected = "stock_metrics",
          !.symbols = <<Samsung>>, !.metric_kw = TRUE, !.rag_kw = TRUE,
          !.question_hint = TRUE, !.metric_word = Some("PER")],
      [Plain("Samsung price PEG tell me") EXCEPT !.detected = "stock_analysis",
          !.symbols = <<Samsung>>, !.metric_kw = TRUE, !.rag_kw = TRUE,
          !.question_hint = TRUE, !.price_kw = TRUE, !.metric_word = Some("PEG")],
      [Plain("Samsung price how much?") EXCEPT !.detected = "stock_analysis",
          !.symbols = <<Samsung>>, !.metric_kw = TRUE, !.question_hint = TRUE,
          !.price_kw = TRUE],
      [Plain("Warren Buffett philosophy tell me") EXCEPT !.rag_kw = TRUE,
          !.mentor_name = TRUE, !.philosophy_kw = TRUE, !.question_hint = TRUE],
      [Plain("Samsung Hynix compare") EXCEPT !.detected = "stock_comparison",
          !.symbols = <<Samsung, Hynix>>, !.comparison_kw = TRUE],
      [Plain("Samsung stock analysis") EXCEPT !.detected = "stock_analysis",
          !.symbols = <<Samsung>>, !.analysis_kw = TRUE, !.context_word = TRUE],
      [Plain("Buffett portfolio show") EXCEPT !.hist_kw = TRUE, !.mentor_name = TRUE],
      [Plain("Samsung holding weight") EXCEPT !.symbols = <<Samsung>>, !.hist_kw = TRUE],
      [Plain("Korea US base rate") EXCEPT !.detected = "macro_outlook",
          !.macro_kw = TRUE, !.regions = <<"KR", "US">>, !.econ_kw = TRUE],
      [Plain("Samsung news analyse") EXCEPT !.detected = "news_analysis",
          !.symbols = <<Samsung>>, !.analysis_kw = TRUE, !.context_word = TRUE],
      [Plain("stock news") EXCEPT !.detected = "news_analysis"],
      [Plain("semiconductor report") EXCEPT !.detected = "research_analysis"] }

Hyundai == "005380"
Naver == "035420"
Kakao == "035720"

(* list(dict.fromkeys(hits)): the first occurrence of each code, in order *)
RECURSIVE fromkeys(_)
fromkeys(hits) ==
    IF hits = <<>> THEN <<>>
    ELSE LET init == fromkeys(SubSeq(hits, 1, Len(hits) - 1))
             last == hits[Len(hits)]
         IN  IF \E i \in 1..Len(init) : init[i] = last THEN init
             ELSE Append(init, last)

(* resolve_symbols_from_text, given the 6-digit codes found in the text    *)
(* and the codes of the local aliases found in it: the codes as found when *)
(* there are any, otherwise the alias hits without repetition, the first   *)
(* three of them.                                                          *)
resolve_symbols_from_text(found, local_hits) ==
    IF found # <<>> THEN found
    ELSE LET hits == fromkeys(local_hits)
         IN  SubSeq(hits, 1, IF Len(hits) < 3 THEN Len(hits) ELSE 3)

(* Further messages, for the router alone *)
RouterMessages ==
    Messages \cup
    { [Plain("Samsung Hynix price compare") EXCEPT !.detected = "stock_comparison",
          !.symbols = <<Samsung, Hynix>>, !.metric_kw = TRUE, !.comparison_kw = TRUE,
          !.price_kw = TRUE],
      [Plain("Samsung or Hynix volume") EXCEPT !.detected = "stock_metrics",
          !.symbols = <<Samsung, Hynix>>, !.comparison_kw = TRUE],
      [Plain("Samsung Hynix compare analysis") EXCEPT !.detected = "stock_comparison",
          !.symbols = <<Samsung, Hynix>>, !.analysis_kw = TRUE, !.comparison_kw = TRUE,
          !.context_word = TRUE],
      [Plain("Samsung Hynix among recommend") EXCEPT !.symbols = <<Samsung, Hynix>>,
          !.comparison_kw = TRUE],
      [Plain("Samsung Hynix portfolio compare") EXCEPT !.detected = "stock_comparison",
          !.symbols = <<Samsung, Hynix>>, !.hist_kw = TRUE, !.comparison_kw = TRUE],
      [Plain("Buffett Samsung Hynix compare inflation") EXCEPT
          !.detected = "stock_comparison", !.symbols = <<Samsung, Hynix>>,
          !.macro_kw = TRUE, !.mentor_name = TRUE, !.philosophy_kw = TRUE,
          !.econ_kw = TRUE, !.comparison_kw = TRUE],
      [Plain("Samsung Samsung Hynix Hyundai Kakao compare") EXCEPT
          !.detected = "stock_comparison",
          !.symbols = resolve_symbols_from_text(<<>>, <<Samsung, Hynix, Hyundai, Kakao>>),
          !.comparison_kw = TRUE],
      [Plain("Buffett Samsung price inflation tell me") EXCEPT
          !.detected = "stock_analysis", !.symbols = <<Samsung>>, !.macro_kw = TRUE,
          !.metric_kw = TRUE, !.rag_kw = TRUE, !.mentor_name = TRUE,
          !.philosophy_kw = TRUE, !.econ_kw = TRUE, !.question_hint = TRUE,
          !.price_kw = TRUE],
      [Plain("Buffett Samsung dividend interest rate thought") EXCEPT
          !.detected = "macro_outlook", !.symbols = <<Samsung>>, !.said_kw = TRUE,
          !.metric_kw = TRUE, !.mentor_name = TRUE, !.philosophy_kw = TRUE,
          !.econ_kw = TRUE],
      [Plain("005930 005930 PER tell me") EXCEPT !.detected = "stock_metrics",
          !.symbols = resolve_symbols_from_text(<<Samsung, Samsung>>, <<>>),
          !.metric_kw = TRUE, !.rag_kw = TRUE,
          !.question_hint = TRUE, !.metric_word = Some("PER")],
      [Plain("005930 005930 000660 035420 035720 price") EXCEPT
          !.detected = "stock_analysis",
          !.symbols = resolve_symbols_from_text(
                          <<Samsung, Samsung, Hynix, Naver, Kakao>>, <<>>),
          !.metric_kw = TRUE,
          !.price_kw = TRUE],
      [Plain("Buffett portfolio philosophy tell me") EXCEPT !.hist_kw = TRUE,
          !.rag_kw = TRUE, !.mentor_name = TRUE, !.philosophy_kw = TRUE,
          !.question_hint = TRUE],
      [Plain("Buffett past philosophy find") EXCEPT !.past_kw = TRUE,
          !.rag_kw = TRUE, !.mentor_name = TRUE, !.philosophy_kw = TRUE],
      [Plain("Buffett past remark tell me") EXCEPT !.past_kw = TRUE,
          !.said_kw = TRUE, !.rag_kw = TRUE, !.mentor_name = TRUE,
          !.philosophy_kw = TRUE, !.question_hint = TRUE] }

GuruIds == {"buffett", "ark"}
SessionIds == {None}

normalize_mentor_id(guru_id) ==
    IF guru_id = "" THEN "buffett"
    ELSE IF guru_id \in {"ark", "cathie", "cathie_wood", "wood"} THEN "wood"
    ELSE IF guru_id \in {"buffett", "warren", "warren_buffett"} THEN "buffett"
    ELSE IF guru_id \in {"lynch", "peter", "peter_lynch"} THEN "lynch"
    ELSE "buffett"

intent_map(detected) ==
    CASE detected = "smalltalk" -> "SMALLTALK"
      [] detected = "news_analysis" -> "NEWS_ANALYSIS"
      [] detected = "stock_analysis" -> "COMPANY_ANALYSIS"
      [] detected = "stock_comparison" -> "COMPARE_COMPANIES"
      [] detected = "stock_metrics" -> "COMPANY_METRICS"
      [] detected = "macro_outlook" -> "MACRO_OUTLOOK"
      [] detected = "research_analysis" -> "RESEARCH_ANALYSIS"
      [] OTHER -> "SMALLTALK"

RoutedQuery(intent, mentor_id, symbols, region, query_text, macro_regions) ==
    [intent |-> intent, mentor_id |-> mentor_id, symbols |-> symbols,
     region |-> region, query_text |-> query_text, macro_regions |-> macro_regions]

(* The comparison rule asking for more than two symbols *)
route_query_compare_over_two(m, guru_id) ==
    LET mentor_id == normalize_mentor_id(guru_id)
        symbols == m.symbols
        i0 == intent_map(m.detected)
        i1 == IF m.hist_kw THEN "HISTORICAL_DATA"
              ELSE IF m.past_kw /\ ~m.said_kw THEN "HISTORICAL_DATA"
              ELSE i0
        macro_requested == i1 # "HISTORICAL_DATA" /\ m.macro_kw
        i2 == IF macro_requested THEN "MACRO_OUTLOOK" ELSE i1
        i3 == IF symbols # <<>> /\ m.metric_kw /\ ~m.analysis_kw
              THEN "COMPANY_METRICS" ELSE i2
        i4 == IF i3 # "HISTORICAL_DATA" /\ ~macro_requested /\ ~m.metric_kw
              THEN (IF m.rag_kw THEN "PHILOSOPHY"
                    ELSE IF m.mentor_name /\ m.philosophy_kw THEN "PHILOSOPHY"
                    ELSE i3)
              ELSE i3
        i5 == IF i4 \notin {"PHILOSOPHY", "HISTORICAL_DATA", "MACRO_OUTLOOK"}
                 /\ m.mentor_name /\ m.econ_kw
              THEN "PHILOSOPHY" ELSE i4
        i6 == IF m.comparison_kw /\ Len(symbols) > 2 THEN "COMPARE_COMPANIES" ELSE i5
        i7 == IF i6 = "COMPANY_ANALYSIS" /\ symbols # <<>> /\ m.metric_kw /\ ~m.analysis_kw
              THEN "COMPANY_METRICS" ELSE i6
        macro_regions == IF i7 = "MACRO_OUTLOOK" /\ m.regions = <<>>
                         THEN <<"KR">> ELSE m.regions
        region == IF i7 = "MACRO_OUTLOOK" THEN Some(macro_regions[1]) ELSE None
    IN  IF i3 = "COMPANY_METRICS"
        THEN RoutedQuery(i3, mentor_id, symbols, None, m.text, None)
        ELSE RoutedQuery(i7, mentor_id, symbols, region, m.text,
                         IF macro_regions = <<>> THEN None ELSE Some(macro_regions))

(* The rules after the metrics rule applied to a metrics question too *)
route_query_no_early_return(m, guru_id) ==
    LET mentor_id == normalize_mentor_id(guru_id)
        symbols == m.symbols
        i0 == intent_map(m.detected)
        i1 == IF m.hist_kw THEN "HISTORICAL_DATA"
              ELSE IF m.past_kw /\ ~m.said_kw THEN "HISTORICAL_DATA"
              ELSE i0
        macro_requested == i1 # "HISTORICAL_DATA" /\ m.macro_kw
        i2 == IF macro_requested THEN "MACRO_OUTLOOK" ELSE i1
        i3 == IF symbols # <<>> /\ m.metric_kw /\ ~m.analysis_kw
              THEN "COMPANY_METRICS" ELSE i2
        i4 == IF i3 # "HISTORICAL_DATA" /\ ~macro_requested /\ ~m.metric_kw
              THEN (IF m.rag_kw THEN "PHILOSOPHY"
                    ELSE IF m.mentor_name /\ m.philosophy_kw THEN "PHILOSOPHY"
                    ELSE i3)
              ELSE i3
        i5 == IF i4 \notin {"PHILOSOPHY", "HISTORICAL_DATA", "MACRO_OUTLOOK"}
                 /\ m.mentor_name /\ m.econ_kw
              THEN "PHILOSOPHY" ELSE i4
        i6 == IF m.comparison_kw /\ Len(symbols) >= 2 THEN "COMPARE_COMPANIES" ELSE i5
        i7 == IF i6 = "COMPANY_ANALYSIS" /\ symbols # <<>> /\ m.metric_kw /\ ~m.analysis_kw
              THEN "COMPANY_METRICS" ELSE i6
        macro_regions == IF i7 = "MACRO_OUTLOOK" /\ m.regions = <<>>
                         THEN <<"KR">> ELSE m.regions
        region == IF i7 = "MACRO_OUTLOOK" THEN Some(macro_regions[1]) ELSE None
    IN  RoutedQuery(i7, mentor_id, symbols, region, m.text,
                    IF macro_regions = <<>> THEN None ELSE Some(macro_regions))

route_query_philosophy_first(m, guru_id) ==
    LET mentor_id == normalize_mentor_id(guru_id)
        symbols == m.symbols
        i0 == intent_map(m.detected)
        i1 == IF m.hist_kw THEN "HISTORICAL_DATA"
              ELSE IF m.past_kw /\ ~m.said_kw THEN "HISTORICAL_DATA"
              ELSE i0
        macro_requested == i1 # "HISTORICAL_DATA" /\ m.macro_kw
        i2 == IF macro_requested THEN "MACRO_OUTLOOK" ELSE i1
        i3 == IF symbols # <<>> /\ m.metric_kw /\ ~m.analysis_kw
              THEN "COMPANY_METRICS" ELSE i2
        i4 == IF ~macro_requested /\ ~m.metric_kw
              THEN (IF m.rag_kw THEN "PHILOSOPHY"
                    ELSE IF m.mentor_name /\ m.philosophy_kw THEN "PHILOSOPHY"
                    ELSE i3)
              ELSE i3
        i5 == IF i4 \notin {"PHILOSOPHY", "HISTORICAL_DATA", "MACRO_OUTLOOK"}
                 /\ m.mentor_name /\ m.econ_kw
              THEN "PHILOSOPHY" ELSE i4
        i6 == IF m.comparison_kw /\ Len(symbols) >= 2 THEN "COMPARE_COMPANIES" ELSE i5
        i7 == IF i6 = "COMPANY_ANALYSIS" /\ symbols # <<>> /\ m.metric_kw /\ ~m.analysis_kw
              THEN "COMPANY_METRICS" ELSE i6
        macro_regions == IF i7 = "MACRO_OUTLOOK" /\ m.regions = <<>>
                         THEN <<"KR">> ELSE m.regions
        region == IF i7 = "MACRO_OUTLOOK" THEN Some(macro_regions[1]) ELSE None
    IN  IF i3 = "COMPANY_METRICS"
        THEN RoutedQuery(i3, mentor_id, symbols, None, m.text, None)
        ELSE RoutedQuery(i7, mentor_id, symbols, region, m.text,
                         IF macro_regions = <<>> THEN None ELSE Some(macro_regions))

route_query(m, guru_id) ==
    LET mentor_id == normalize_mentor_id(guru_id)
        symbols == m.symbols
        i0 == intent_map(m.detected)
        i1 == IF m.hist_kw THEN "HISTORICAL_DATA"
              ELSE IF m.past_kw /\ ~m.said_kw THEN "HISTORICAL_DATA"
              ELSE i0
        macro_requested == i1 # "HISTORICAL_DATA" /\ m.macro_kw
        i2 == IF macro_requested THEN "MACRO_OUTLOOK" ELSE i1
        i3 == IF symbols # <<>> /\ m.metric_kw /\ ~m.analysis_kw
              THEN "COMPANY_METRICS" ELSE i2
        i4 == IF i3 # "HISTORICAL_DATA" /\ ~macro_requested /\ ~m.metric_kw
              THEN (IF m.rag_kw THEN "PHILOSOPHY"
                    ELSE IF m.mentor_name /\ m.philosophy_kw THEN "PHILOSOPHY"
                    ELSE i3)
              ELSE i3
        i5 == IF i4 \notin {"PHILOSOPHY", "HISTORICAL_DATA", "MACRO_OUTLOOK"}
                 /\ m.mentor_name /\ m.econ_kw
              THEN "PHILOSOPHY" ELSE i4
        i6 == IF m.comparison_kw /\ Len(symbols) >= 2 THEN "COMPARE_COMPANIES" ELSE i5
        i7 == IF i6 = "COMPANY_ANALYSIS" /\ symbols # <<>> /\ m.metric_kw /\ ~m.analysis_kw
              THEN "COMPANY_METRICS" ELSE i6
        macro_regions == IF i7 = "MACRO_OUTLOOK" /\ m.regions = <<>>
                         THEN <<"KR">> ELSE m.regions
        region == IF i7 = "MACRO_OUTLOOK" THEN Some(macro_regions[1]) ELSE None
    IN  IF i3 = "COMPANY_METRICS"
        THEN RoutedQuery(i3, mentor_id, symbols, None, m.text, None)
        ELSE RoutedQuery(i7, mentor_id, symbols, region, m.text,
                         IF macro_regions = <<>> THEN None ELSE Some(macro_regions))

-----------------------------------------------------------------------------
(* The state of a run and the merge of a node's partial update *)

StateKeys == {"messages", "user_message", "guru_id", "session_id", "routed_query",
              "rag_docs", "draft_answer", "validated_answer", "rag_is_valid",
              "rag_confidence", "rag_issues", "philosophy_snippets",
              "portfolio_history", "macro_data", "stock_metrics", "response"}

initial_state(m, guru_id, session_id) ==
    [messages |-> <<>>,
     user_message |-> m,
     guru_id |-> guru_id,
     session_id |-> session_id,
     routed_query |-> None,
     rag_docs |-> 0,
     draft_answer |-> None,
     validated_answer |-> None,
     rag_is_valid |-> TRUE,
     rag_confidence |-> 100,
     rag_issues |-> <<>>,
     philosophy_snippets |-> <<>>,
     portfolio_history |-> <<>>,
     macro_data |-> <<>>,
     stock_metrics |-> <<>>,
     response |-> None]

(* A node returns a dict; the graph writes the keys that are channels of   *)
(* OrchestrationState, with add_messages on "messages" and overwrite on    *)
(* every other channel.  A key that is no channel is not written.          *)
ApplyUpdate(s, update) ==
    [k \in DOMAIN s |->
        IF k \in DOMAIN update
        THEN (IF k = "messages" THEN s[k] \o update[k] ELSE update[k])
        ELSE s[k]]

EmptyUpdate == [k \in {} |-> None]

-----------------------------------------------------------------------------
(* Conditional edges *)

(* The live-metrics test made before the RAG test *)
route_by_intent_metrics_first(s) ==
    LET routed_query == Get(s, "routed_query", None) IN
    IF routed_query = None THEN "mentor_agent"
    ELSE LET intent == routed_query[1].intent IN
         IF intent = "HISTORICAL_DATA" THEN "rag_loader"
         ELSE IF intent \in {"COMPANY_METRICS", "COMPANY_ANALYSIS", "COMPARE_COMPANIES"}
              THEN "rest_api"
         ELSE IF intent \in {"PHILOSOPHY", "NEWS_ANALYSIS", "RESEARCH_ANALYSIS"}
              THEN "langchain_rag"
         ELSE IF intent = "MACRO_OUTLOOK" THEN "rag_loader"
         ELSE "mentor_agent"

route_by_intent(s) ==
    LET routed_query == Get(s, "routed_query", None) IN
    IF routed_query = None THEN "mentor_agent"
    ELSE LET intent == routed_query[1].intent IN
         IF intent = "HISTORICAL_DATA" THEN "rag_loader"
         ELSE IF intent \in {"PHILOSOPHY", "COMPANY_ANALYSIS", "COMPARE_COMPANIES",
                             "NEWS_ANALYSIS", "RESEARCH_ANALYSIS"} THEN "langchain_rag"
         ELSE IF intent = "MACRO_OUTLOOK" THEN "rag_loader"
         ELSE IF intent \in {"COMPANY_METRICS", "COMPANY_ANALYSIS", "COMPARE_COMPANIES"}
              THEN "rest_api"
         ELSE "mentor_agent"

(* A pass that retrieved nothing goes on without a refinement *)
should_refine_rag_unless_empty(s) ==
    LET rag_is_valid == Get(s, "rag_is_valid", TRUE)
        rag_confidence == Get(s, "rag_confidence", 100)
        refinement_count == Get(s, "_rag_refinement_count", 0)
        needs_refine == ((~rag_is_valid) \/ (rag_confidence < RefineThreshold))
                        /\ Get(s, "rag_docs", 0) > 0
        routed_query == Get(s, "routed_query", None)
    IN  IF needs_refine /\ refinement_count < MaxRefinements THEN "refine"
        ELSE IF routed_query = None THEN "mentor_agent"
        ELSE LET intent == routed_query[1].intent
                 symbols == routed_query[1].symbols
             IN  IF intent \in {"COMPANY_ANALYSIS", "COMPARE_COMPANIES", "NEWS_ANALYSIS",
                                "RESEARCH_ANALYSIS"} /\ symbols # <<>> THEN "rag_loader"
                 ELSE "mentor_agent"

(* The threshold itself counted as insufficient *)
should_refine_rag_at_threshold(s) ==
    LET rag_is_valid == Get(s, "rag_is_valid", TRUE)
        rag_confidence == Get(s, "rag_confidence", 100)
        refinement_count == Get(s, "_rag_refinement_count", 0)
        needs_refine == (~rag_is_valid) \/ (rag_confidence <= RefineThreshold)
        routed_query == Get(s, "routed_query", None)
    IN  IF needs_refine /\ refinement_count < MaxRefinements THEN "refine"
        ELSE IF routed_query = None THEN "mentor_agent"
        ELSE LET intent == routed_query[1].intent
                 symbols == routed_query[1].symbols
             IN  IF intent \in {"COMPANY_ANALYSIS", "COMPARE_COMPANIES", "NEWS_ANALYSIS",
                                "RESEARCH_ANALYSIS"} /\ symbols # <<>> THEN "rag_loader"
                 ELSE IF intent = "COMPANY_METRICS" /\ symbols # <<>> THEN "rest_api"
                 ELSE "mentor_agent"

should_refine_rag(s) ==
    LET rag_is_valid == Get(s, "rag_is_valid", TRUE)
        rag_confidence == Get(s, "rag_confidence", 100)
        refinement_count == Get(s, "_rag_refinement_count", 0)
        needs_refine == (~rag_is_valid) \/ (rag_confidence < RefineThreshold)
        routed_query == Get(s, "routed_query", None)
    IN  IF needs_refine /\ refinement_count < MaxRefinements THEN "refine"
        ELSE IF routed_query = None THEN "mentor_agent"
        ELSE LET intent == routed_query[1].intent
                 symbols == routed_query[1].symbols
             IN  IF intent = "COMPANY_ANALYSIS" /\ symbols # <<>> THEN "rag_loader"
                 ELSE IF intent \in {"COMPARE_COMPANIES", "NEWS_ANALYSIS", "RESEARCH_ANALYSIS"}
                         /\ symbols # <<>> THEN "rag_loader"
                 ELSE IF intent \in {"COMPANY_METRICS", "COMPANY_ANALYSIS", "COMPARE_COMPANIES"}
                         /\ symbols # <<>> THEN "rest_api"
                 ELSE "mentor_agent"

(* The edge after the refinement evaluated like the edge after the RAG node *)
route_after_refine_rechecks(s) ==
    LET rag_is_valid == Get(s, "rag_is_valid", TRUE)
        rag_confidence == Get(s, "rag_confidence", 100)
        refinement_count == Get(s, "_rag_refinement_count", 0)
        needs_refine == (~rag_is_valid) \/ (rag_confidence < RefineThreshold)
        routed_query == Get(s, "routed_query", None)
    IN  IF needs_refine /\ refinement_count < MaxRefinements THEN "refine"
        ELSE IF routed_query = None THEN "mentor_agent"
        ELSE IF routed_query[1].intent \in {"COMPANY_ANALYSIS", "COMPARE_COMPANIES"}
                /\ routed_query[1].symbols # <<>> THEN "rag_loader"
        ELSE "mentor_agent"

route_after_refine_fetch_first(s) ==
    LET routed_query == Get(s, "routed_query", None) IN
    IF routed_query = None THEN "mentor_agent"
    ELSE LET intent == routed_query[1].intent
             symbols == routed_query[1].symbols
         IN  IF intent \in {"COMPANY_ANALYSIS", "COMPARE_COMPANIES"} /\ symbols # <<>>
             THEN "rest_api"
             ELSE "mentor_agent"

route_after_refine(s) ==
    LET routed_query == Get(s, "routed_query", None) IN
    IF routed_query = None THEN "mentor_agent"
    ELSE LET intent == routed_query[1].intent
             symbols == routed_query[1].symbols
         IN  IF intent \in {"COMPANY_ANALYSIS", "COMPARE_COMPANIES"} /\ symbols # <<>>
             THEN "rag_loader"
             ELSE IF intent \in {"COMPANY_ANALYSIS", "COMPARE_COMPANIES"} /\ symbols # <<>>
             THEN "rest_api"
             ELSE "mentor_agent"

(* The edge after the loader made to depend on the validation confidence *)
route_after_legacy_rag_by_confidence(s) ==
    LET routed_query == Get(s, "routed_query", None) IN
    IF routed_query = None THEN "mentor_agent"
    ELSE LET intent == routed_query[1].intent
             symbols == routed_query[1].symbols
         IN  IF intent \in {"COMPANY_ANALYSIS", "COMPARE_COMPANIES"} /\ symbols # <<>>
                /\ Get(s, "rag_confidence", 100) >= RefineThreshold
             THEN "rest_api"
             ELSE "mentor_agent"

(* The edge after the loader going on to the live metrics for any symbols *)
route_after_legacy_rag_any_symbols(s) ==
    LET routed_query == Get(s, "routed_query", None) IN
    IF routed_query = None THEN "mentor_agent"
    ELSE IF routed_query[1].symbols # <<>> THEN "rest_api"
    ELSE "mentor_agent"

route_after_legacy_rag(s) ==
    LET routed_query == Get(s, "routed_query", None) IN
    IF routed_query = None THEN "mentor_agent"
    ELSE LET intent == routed_query[1].intent
             symbols == routed_query[1].symbols
         IN  IF intent \in {"COMPANY_ANALYSIS", "COMPARE_COMPANIES"} /\ symbols # <<>>
             THEN "rest_api"
             ELSE "mentor_agent"

(* Name returned by a conditional edge -> node of the compiled graph *)
RefineEdge(name) == IF name = "refine" THEN "refine_rag" ELSE name

-----------------------------------------------------------------------------
(* The historical store (files read once into the process-wide cache) *)

PortfolioRow(guru_id, symbols, as_of) ==
    [guru_id |-> guru_id, symbols |-> symbols, as_of |-> as_of,
     section |-> "portfolio_snapshot"]

MacroRow(region, period) ==
    [region |-> region, period |-> period, record_type |-> "row"]

GoodStore ==
    [loadable |-> TRUE,
     portfolio |-> << PortfolioRow("buffett", {Samsung}, 3),
                      PortfolioRow("buffett", {Hynix}, 6),
                      PortfolioRow("cathie", {Samsung}, 5),
                      PortfolioRow("buffett", {Samsung, Hynix}, 5),
                      PortfolioRow("buffett", {Samsung}, 1),
                      PortfolioRow("warren", {Samsung}, 4),
                      PortfolioRow("buffett", {}, 2),
                      PortfolioRow("ark", {Hynix}, 2) >>,
     macro |-> [KR |-> << MacroRow("KR", 2), MacroRow("KR", 5), MacroRow("KR", 1),
                          MacroRow("KR", 4), MacroRow("KR", 3) >>,
                US |-> << >>]]

(* A file holding a JSON line that is no object: the row loop of           *)
(* initialize_rag_cache raises on it.                                      *)
BrokenStore == [loadable |-> FALSE, portfolio |-> <<>>, macro |-> [KR |-> <<>>, US |-> <<>>]]

Stores == {GoodStore, BrokenStore}

Take(seq, n) == SubSeq(seq, 1, Min(n, Len(seq)))

(* list.sort(key=..., reverse=True): descending by key, stable *)
RECURSIVE SortDesc(_, _)
SortDesc(seq, key) ==
    IF seq = <<>> THEN <<>>
    ELSE LET sorted == SortDesc(SubSeq(seq, 1, Len(seq) - 1), key)
             x == seq[Len(seq)]
             ahead == SelectSeq(sorted, LAMBDA y : y[key] >= x[key])
             behind == SelectSeq(sorted, LAMBDA y : y[key] < x[key])
         IN  ahead \o <<x>> \o behind

get_portfolio_history(st, guru_id, symbol, top_k) ==
    LET guru == normalize_mentor_id(guru_id)
        matches(row) ==
            /\ normalize_mentor_id(row.guru_id) = guru
            /\ (symbol # None => symbol[1] \in row.symbols)
        filtered == SelectSeq(st.portfolio, matches)
    IN  Take(SortDesc(filtered, "as_of"), top_k)

(* last_n_quarters = None is the slice [:None], the whole list *)
get_macro_regime(st, region, last_n_quarters) ==
    LET rows == IF region \in DOMAIN st.macro THEN st.macro[region] ELSE <<>>
        filtered == SelectSeq(rows, LAMBDA r : r.region = region)
        sorted == SortDesc(filtered, "period")
    IN  IF rows = <<>> THEN <<>>
        ELSE IF last_n_quarters = None THEN sorted
        ELSE Take(sorted, last_n_quarters[1])

MACRO_RECORD_LIMIT == 4

_build_macro_coverage_record(region, rows) ==
    IF rows = <<>> THEN None
    ELSE Some([region |-> region, period |-> 0, record_type |-> "coverage_summary",
               start |-> rows[Len(rows)].period, end |-> rows[1].period,
               total_rows |-> Len(rows)])

RECURSIVE load_macro(_, _, _)
load_macro(st, regions, v) ==
    IF regions = <<>> THEN <<>>
    ELSE LET macro_region == regions[1]
             rest == load_macro(st, Tail(regions), v)
         IN  IF v = "final"
             THEN get_macro_regime(st, macro_region, Some(4)) \o rest
             ELSE LET rows_full == get_macro_regime(st, macro_region, None)
                      coverage_record == _build_macro_coverage_record(macro_region, rows_full)
                  IN  IF rows_full = <<>> THEN rest
                      ELSE coverage_record \o Take(rows_full, MACRO_RECORD_LIMIT) \o rest

(* The module globals _philosophy_cache (its number of rows),              *)
(* _portfolio_cache and _macro_cache before the load                       *)
EmptyCache == [rows |-> [philosophy |-> 0, portfolio |-> <<>>, macro |-> [KR |-> <<>>, US |-> <<>>]], loads |-> 0]

(* The load repeated by every call *)
initialize_rag_cache_every_call(st, initialized, c) ==
    IF ~st.loadable THEN [raised |-> TRUE, initialized |-> initialized, cache |-> c]
    ELSE [raised |-> FALSE, initialized |-> TRUE,
          cache |-> [rows |-> [philosophy |-> CorpusSize, portfolio |-> st.portfolio,
                              macro |-> st.macro],
                     loads |-> c.loads + 1]]

(* initialize_rag_cache: returns at once when the flag is set; otherwise   *)
(* reads the files into the globals and sets the flag, or raises before    *)
(* the portfolio and macro rows are assigned.                              *)
initialize_rag_cache(st, initialized, c) ==
    IF initialized THEN [raised |-> FALSE, initialized |-> TRUE, cache |-> c]
    ELSE IF ~st.loadable THEN [raised |-> TRUE, initialized |-> FALSE, cache |-> c]
    ELSE [raised |-> FALSE, initialized |-> TRUE,
          cache |-> [rows |-> [philosophy |-> CorpusSize, portfolio |-> st.portfolio,
                              macro |-> st.macro],
                     loads |-> c.loads + 1]]

(* rag_loader_node: result of the node body. initialize_rag_cache() is     *)
(* called outside every try block.                                         *)
rag_loader_node(s, st, initialized, v) ==
    LET routed_query == Get(s, "routed_query", None) IN
    IF routed_query = None
    THEN [raised |-> FALSE, exc |-> <<>>, update |-> EmptyUpdate]
    ELSE IF ~initialized /\ ~st.loadable
    THEN [raised |-> TRUE, exc |-> <<"exc: rag cache">>, update |-> EmptyUpdate]
    ELSE
    LET rq == routed_query[1]
        intent == rq.intent
        symbols == rq.symbols
        region == IF rq.region = None THEN "KR" ELSE rq.region[1]
        preferred_regions == IF rq.macro_regions # None /\ rq.macro_regions[1] # <<>>
                             THEN rq.macro_regions[1] ELSE <<region>>
        portfolio_history ==
            IF intent = "HISTORICAL_DATA"
            THEN (IF symbols # <<>>
                  THEN get_portfolio_history(st, rq.mentor_id, Some(symbols[1]), 5)
                  ELSE get_portfolio_history(st, rq.mentor_id, None, 10))
            ELSE IF intent \in {"COMPANY_ANALYSIS", "COMPARE_COMPANIES",
                                "NEWS_ANALYSIS", "RESEARCH_ANALYSIS"}
            THEN (IF symbols # <<>>
                  THEN get_portfolio_history(st, rq.mentor_id, Some(symbols[1]), 3)
                  ELSE <<>>)
            ELSE <<>>
        macro_data == IF intent = "MACRO_OUTLOOK"
                      THEN load_macro(st, preferred_regions, v) ELSE <<>>
    IN  [raised |-> FALSE, exc |-> <<>>,
         update |-> [portfolio_history |-> portfolio_history, macro_data |-> macro_data]]

-----------------------------------------------------------------------------
(* RAG pipeline: retriever -> draft generator -> validator *)

(* What the retriever step can do, given the environment *)
RetrOutcomes(st, initialized, bm25) ==
    IF bm25
    THEN (IF st.loadable \/ initialized THEN {"docs", "none", "raise"} ELSE {"raise"})
    ELSE (IF st.loadable \/ initialized THEN {"fb_docs", "fb_none"} ELSE {"fb_raise"})

(* The retriever cache: one BM25 retriever per persona, built on first use *)
(* over the persona's philosophy snippets with k = 5, and shared by every  *)
(* later call.  A retriever is its k and the number of its documents.      *)
MentorIds == {"buffett", "wood", "lynch"}

EmptyRetrieverCache == [id \in MentorIds |-> None]

BM25Retriever(k, n_docs) == [k |-> k, n_docs |-> n_docs]

DefaultK == 5

_build_retriever(rc, normalized_id) ==
    IF rc[normalized_id] # None THEN rc
    ELSE [rc EXCEPT ![normalized_id] = Some(BM25Retriever(DefaultK, CorpusSize))]

(* retriever.invoke: the best k documents *)
invoke(retriever) == Min(retriever.k, retriever.n_docs)

(* The retrieval reading the retriever's k before writing its own *)
retrieve_docs_before_k(rc, normalized_id, top_k) ==
    LET built == _build_retriever(rc, normalized_id)
        retriever == built[normalized_id][1]
    IN  [cache |-> [built EXCEPT ![normalized_id] = Some([retriever EXCEPT !.k = top_k])],
         docs |-> invoke(retriever)]

(* retriever = _build_retriever(id); retriever.k = top_k;                  *)
(* docs = retriever.invoke(query): one synchronous stretch of the coroutine *)
retrieve_docs(rc, normalized_id, top_k) ==
    LET built == _build_retriever(rc, normalized_id)
        retriever == [built[normalized_id][1] EXCEPT !.k = top_k]
    IN  [cache |-> [built EXCEPT ![normalized_id] = Some(retriever)],
         docs |-> invoke(retriever)]

(* The retriever cache after the retrieval step: an exception with no      *)
(* retriever cached is the build's, otherwise the invoke's; without        *)
(* rank_bm25 the build raises ImportError and nothing is cached.           *)
AfterRetrieval(rc, normalized_id, top_k, retr) ==
    IF retr \in {"docs", "none"} THEN retrieve_docs(rc, normalized_id, top_k).cache
    ELSE IF retr = "raise" /\ rc[normalized_id] # None
    THEN retrieve_docs(rc, normalized_id, top_k).cache
    ELSE rc

(* Parsed validator outputs: every key of the dict is optional *)
ValidatorDict(is_valid, confidence, final_answer, issues) ==
    [is_valid |-> is_valid, confidence |-> confidence, numeric |-> TRUE,
     final_answer |-> final_answer, issues |-> issues]

ValidatorDicts ==
    { ValidatorDict(Some(FALSE), Some(30), None, << <<"issue: not grounded">> >>),
      ValidatorDict(Some(TRUE), Some(59), None, <<>>),
      ValidatorDict(Some(TRUE), Some(60), Some(CorrectedText), <<>>),
      ValidatorDict(Some(FALSE), Some(90), Some(CorrectedText), << <<"issue: not grounded">> >>),
      ValidatorDict(None, None, None, <<>>),
      [ValidatorDict(Some(TRUE), Some(0), None, <<>>) EXCEPT !.numeric = FALSE] }

ValOutcomes == [kind : {"dict"}, dict : ValidatorDicts]
               \cup {[kind |-> "nondict"], [kind |-> "raise"]}

RagOutcomes(st, initialized, bm25) ==
    [retr : RetrOutcomes(st, initialized, bm25), chain : {"ok", "raise"},
     draft : {"ok", "raise"}, val : ValOutcomes]

RagResult(docs, draft_answer, validated_answer, is_valid, confidence, numeric, issues, n_draft, n_val, caught) ==
    [status |-> "ok", exc |-> <<>>, docs |-> docs, draft_answer |-> draft_answer,
     validated_answer |-> validated_answer, is_valid |-> is_valid,
     confidence |-> confidence, numeric |-> numeric, issues |-> issues,
     n_draft |-> n_draft, n_val |-> n_val, caught |-> caught]

RagRaise(exc, n_draft, n_val) ==
    [status |-> "raise", exc |-> exc, docs |-> 0, draft_answer |-> <<>>,
     validated_answer |-> <<>>, is_valid |-> FALSE, confidence |-> 0, numeric |-> TRUE,
     issues |-> <<>>, n_draft |-> n_draft, n_val |-> n_val, caught |-> TRUE]

run_rag_pipeline(o, top_k) ==
    LET docs == IF o.retr \in {"docs", "fb_docs"} THEN Min(top_k, CorpusSize) ELSE 0
        draft_answer == IF o.draft = "ok" THEN DraftText ELSE DRAFT_ERROR_ANSWER
        draft_caught == o.draft # "ok"
    IN  IF o.retr = "fb_raise" THEN RagRaise(<<"exc: rag cache">>, 0, 0)
        ELSE IF docs = 0
        THEN RagResult(0, <<>>, RAG_NO_DOCS_ANSWER, FALSE, 0, TRUE,
                       <<RAG_NO_DOCS_ISSUE>>, 0, 0, o.retr = "raise")
        ELSE IF o.chain = "raise" THEN RagRaise(<<"exc: chain">>, 0, 0)
        ELSE IF o.val.kind = "dict"
        THEN LET d == o.val.dict IN
             RagResult(docs, draft_answer,
                       IF d.final_answer = None THEN draft_answer ELSE d.final_answer[1],
                       IF d.is_valid = None THEN FALSE ELSE d.is_valid[1],
                       IF d.confidence = None THEN 50 ELSE d.confidence[1],
                       d.numeric, d.issues, 1, 1, draft_caught)
        ELSE IF o.val.kind = "nondict"
        THEN RagResult(docs, draft_answer, draft_answer, TRUE, 70, TRUE, <<>>, 1, 1, draft_caught)
        ELSE RagResult(docs, draft_answer, draft_answer, TRUE, 50, TRUE,
                       <<VALIDATOR_ERROR_ISSUE>>, 1, 1, TRUE)

(* The validated answer written as the response by the RAG nodes *)
RagFields_with_response(r) ==
    [rag_docs |-> r.docs,
     draft_answer |-> Some(r.draft_answer),
     validated_answer |-> Some(r.validated_answer),
     rag_is_valid |-> r.is_valid,
     rag_confidence |-> r.confidence,
     rag_issues |-> r.issues,
     response |-> Some(r.validated_answer)]

(* The dict written by the two RAG nodes when the pipeline result is used *)
RagFields(r) ==
    [rag_docs |-> r.docs,
     draft_answer |-> Some(r.draft_answer),
     validated_answer |-> Some(r.validated_answer),
     rag_is_valid |-> r.is_valid,
     rag_confidence |-> r.confidence,
     rag_issues |-> r.issues]

(* The log line formats the confidence with :.2f inside the try block *)
RagNodeFails(r) == r.status = "raise" \/ ~r.numeric

RagNodeExc(r) == IF r.status = "raise" THEN r.exc ELSE <<"exc: confidence format">>

langchain_rag_node(s, o) ==
    LET routed_query == Get(s, "routed_query", None)
        r == run_rag_pipeline(o, RagTopK)
    IN  IF routed_query = None
        THEN [update |-> EmptyUpdate, ran |-> FALSE, top_k |-> RagTopK, r |-> r, caught |-> FALSE]
        ELSE IF RagNodeFails(r)
        THEN [update |-> [rag_docs |-> 0,
                          draft_answer |-> Some(<<>>),
                          validated_answer |-> Some(RAG_ERROR_ANSWER),
                          rag_is_valid |-> FALSE,
                          rag_confidence |-> 0,
                          rag_issues |-> <<RAG_ERROR_ISSUE \o RagNodeExc(r)>>],
              ran |-> TRUE, top_k |-> RagTopK, r |-> r, caught |-> TRUE]
        ELSE [update |-> RagFields(r), ran |-> TRUE, top_k |-> RagTopK, r |-> r, caught |-> r.caught]

WithCount(update, refinement_count) ==
    [k \in DOMAIN update \cup {"_rag_refinement_count"} |->
        IF k = "_rag_refinement_count" THEN refinement_count ELSE update[k]]

(* The refinement retrieving no wider than the first pass *)
refine_rag_node_same_top_k(s, o) ==
    LET routed_query == Get(s, "routed_query", None)
        refinement_count == Get(s, "_rag_refinement_count", 0) + 1
        top_k == RagTopK
        r == run_rag_pipeline(o, top_k)
    IN  IF routed_query = None
        THEN [update |-> EmptyUpdate, ran |-> FALSE, top_k |-> top_k, r |-> r, caught |-> FALSE]
        ELSE IF RagNodeFails(r)
        THEN [update |-> WithCount(EmptyUpdate, refinement_count),
              ran |-> TRUE, top_k |-> top_k, r |-> r, caught |-> TRUE]
        ELSE [update |-> WithCount(RagFields(r), refinement_count),
              ran |-> TRUE, top_k |-> top_k, r |-> r, caught |-> r.caught]

refine_rag_node(s, o) ==
    LET routed_query == Get(s, "routed_query", None)
        refinement_count == Get(s, "_rag_refinement_count", 0) + 1
        top_k == RefineTopK
        r == run_rag_pipeline(o, top_k)
    IN  IF routed_query = None
        THEN [update |-> EmptyUpdate, ran |-> FALSE, top_k |-> top_k, r |-> r, caught |-> FALSE]
        ELSE IF RagNodeFails(r)
        THEN [update |-> WithCount(EmptyUpdate, refinement_count),
              ran |-> TRUE, top_k |-> top_k, r |-> r, caught |-> TRUE]
        ELSE [update |-> WithCount(RagFields(r), refinement_count),
              ran |-> TRUE, top_k |-> top_k, r |-> r, caught |-> r.caught]

-----------------------------------------------------------------------------
(* Live metrics: Kiwoom ka10001 per symbol, normalised into StockMetrics *)

Abs(x) == IF x < 0 THEN -x ELSE x

Raw(is_dict, return_code, stk_nm, cur_prc, trde_qty, per, oyr_lwst) ==
    [is_dict |-> is_dict, return_code |-> return_code, stk_nm |-> stk_nm,
     cur_prc |-> cur_prc, trde_qty |-> trde_qty, per |-> per, oyr_lwst |-> oyr_lwst]

RawFull == Raw(TRUE, Some(0), "Samsung Electronics", Some(-70000), Some(10), Some(12), Some(-50000))
RawSparse == Raw(TRUE, None, "", None, None, None, Some(30000))
RawRejected == Raw(TRUE, Some(1), "", None, None, None, None)
RawNonDict == Raw(FALSE, None, "", None, None, None, None)

_normalise_live_snapshot(raw, symbol) ==
    IF ~raw.is_dict THEN None
    ELSE IF raw.return_code # None /\ raw.return_code[1] # 0 THEN None
    ELSE LET current_price == IF raw.cur_prc = None THEN None ELSE Some(Abs(raw.cur_prc[1]))
             volume == raw.trde_qty
             trade_value == IF current_price # None /\ volume # None
                            THEN Some(current_price[1] * volume[1]) ELSE None
             oyr_lwst_value == IF raw.oyr_lwst # None /\ raw.oyr_lwst[1] < 0
                               THEN Some(Abs(raw.oyr_lwst[1])) ELSE raw.oyr_lwst
         IN  Some([section |-> "market_update",
                   symbols |-> <<symbol>>,
                   metadata |-> [name |-> raw.stk_nm,
                                 metrics |-> [PER |-> raw.per,
                                              L52W |-> oyr_lwst_value,
                                              VOL |-> volume,
                                              TRADE_VALUE |-> trade_value,
                                              CUR |-> current_price]]])

NoMetrics == [PER |-> None, L52W |-> None, VOL |-> None, TRADE_VALUE |-> None, CUR |-> None]

StockMetrics(symbol, name, price, pe, volume, trade_value, low_52w, peg, eps_growth_percent) ==
    [symbol |-> symbol, name |-> name, price |-> price, pe |-> pe, volume |-> volume,
     trade_value |-> trade_value, low_52w |-> low_52w, peg |-> peg,
     eps_growth_percent |-> eps_growth_percent]

(* What one symbol's fetch can do: the call, its payload, and the PEG      *)
(* computed from pykrx (None also when compute_peg_ratio raises).          *)
SymbolOutcomes ==
    { [fetch |-> "raise", raw |-> RawNonDict, peg |-> None],
      [fetch |-> "ok", raw |-> RawNonDict, peg |-> None],
      [fetch |-> "ok", raw |-> RawRejected, peg |-> None],
      [fetch |-> "ok", raw |-> RawFull, peg |-> Some(2)],
      [fetch |-> "ok", raw |-> RawFull, peg |-> None],
      [fetch |-> "ok", raw |-> RawSparse, peg |-> None] }

(* The metrics of one symbol, or None when the symbol is skipped *)
load_symbol(symbol, so, v) ==
    LET snapshot == _normalise_live_snapshot(so.raw, symbol) IN
    IF so.fetch = "raise" \/ snapshot = None THEN None
    ELSE IF v = "final"
    THEN LET m == Get(snapshot[1], "metrics", NoMetrics) IN
         Some(StockMetrics(symbol, "", m.CUR, m.PER, m.VOL, m.TRADE_VALUE, m.L52W, None, None))
    ELSE LET m == snapshot[1].metadata.metrics
             name == IF snapshot[1].metadata.name # "" THEN snapshot[1].metadata.name
                     ELSE so.raw.stk_nm
         IN  Some(StockMetrics(symbol, name, m.CUR, m.PER, m.VOL, m.TRADE_VALUE, m.L52W,
                               so.peg, IF so.peg = None THEN None ELSE Some(6)))

(* The loop over the symbols left at the first symbol that is skipped *)
RECURSIVE load_symbols_until_failure(_, _, _)
load_symbols_until_failure(symbols, outs, v) ==
    IF symbols = <<>> THEN <<>>
    ELSE IF load_symbol(symbols[1], outs[1], v) = None THEN <<>>
    ELSE load_symbol(symbols[1], outs[1], v)
         \o load_symbols_until_failure(Tail(symbols), Tail(outs), v)

RECURSIVE load_symbols(_, _, _)
load_symbols(symbols, outs, v) ==
    IF symbols = <<>> THEN <<>>
    ELSE load_symbol(symbols[1], outs[1], v) \o load_symbols(Tail(symbols), Tail(outs), v)


ClientOutcomes == {"ok", "ctor_raise", "close_raise"}

rest_api_node(s, client, outs, v) ==
    LET routed_query == Get(s, "routed_query", None) IN
    IF routed_query = None
    THEN [update |-> EmptyUpdate, fetched |-> <<>>, caught |-> FALSE]
    ELSE LET intent == routed_query[1].intent
             symbols == routed_query[1].symbols
             wanted == intent \in {"COMPANY_METRICS", "COMPANY_ANALYSIS", "COMPARE_COMPANIES"}
                       /\ symbols # <<>>
             stock_metrics == IF wanted /\ client # "ctor_raise"
                              THEN load_symbols(symbols, outs, v) ELSE <<>>
         IN  [update |-> [stock_metrics |-> stock_metrics],
              fetched |-> IF wanted /\ client # "ctor_raise" THEN symbols ELSE <<>>,
              caught |-> wanted /\ (client # "ok"
                                    \/ \E i \in 1..Len(symbols) : outs[i].fetch = "raise")]

-----------------------------------------------------------------------------
(* Response composer *)

_detect_metric_request(m) ==
    IF m.context_word \/ ~m.question_hint THEN None ELSE m.metric_word

_is_price_only_question(m) ==
    IF ~m.price_kw THEN FALSE
    ELSE IF m.context_word THEN FALSE
    ELSE m.question_hint

DisplayName(metric, fallback_symbol) ==
    IF metric.name # "" THEN metric.name
    ELSE IF metric.symbol # "" THEN metric.symbol
    ELSE IF fallback_symbol # <<>> THEN fallback_symbol[1] ELSE ""

_format_price_response(metric, fallback_symbol) ==
    IF metric.price = None
    THEN <<DisplayName(metric, fallback_symbol), "current price could not be loaded">>
    ELSE <<DisplayName(metric, fallback_symbol), "current price is", ToString(metric.price[1])>>

_format_peg_response(metric, fallback_symbol, peg_value, eps_growth) ==
    IF peg_value = None
    THEN (IF eps_growth = None
          THEN <<DisplayName(metric, fallback_symbol), "PEG needs the EPS growth, not found">>
          ELSE <<DisplayName(metric, fallback_symbol), "PEG cannot be computed">>)
    ELSE <<DisplayName(metric, fallback_symbol), "PEG is", ToString(peg_value[1])>>
         \o (IF eps_growth = None THEN <<>> ELSE <<"EPS growth", ToString(eps_growth[1])>>)

(* The PEG branch reads the name `symbol`, which the function never binds: *)
(* evaluating it raises NameError whenever metric.peg is None.             *)
_format_metric_response(metric, metric_key, fallback_symbol) ==
    IF metric_key = "PEG"
    THEN (IF metric.peg = None
          THEN [raised |-> TRUE, text |-> <<"exc: name 'symbol' is not defined">>]
          ELSE [raised |-> FALSE,
                text |-> _format_peg_response(metric, fallback_symbol, metric.peg,
                                              metric.eps_growth_percent)])
    ELSE IF metric_key = "PER"
    THEN (IF metric.pe = None
          THEN [raised |-> FALSE,
                text |-> <<DisplayName(metric, fallback_symbol), "PER", "could not be loaded">>]
          ELSE [raised |-> FALSE,
                text |-> <<DisplayName(metric, fallback_symbol), "PER", "is",
                           ToString(metric.pe[1])>>])
    ELSE [raised |-> FALSE,
          text |-> <<DisplayName(metric, fallback_symbol), metric_key, "is not supported">>]

(* The persona composer: the agent's LLM text, the agent's own apology     *)
(* when its LLM call fails, an empty completion, or an exception.          *)
AGENT_LLM_APOLOGY == <<"apology: error while generating the response">>
ComposerOutcomes == {"text", "agent_apology", "empty", "raise"}

Respond(text) == [response |-> Some(text), messages |-> <<text>>]

PersonaPath(o) ==
    IF o = "raise"
    THEN [raised |-> FALSE, exc |-> <<>>, caught |-> TRUE, composed |-> TRUE,
          update |-> Respond(RESPONSE_ERROR_PREFIX \o <<"exc: composer">>)]
    ELSE [raised |-> FALSE, exc |-> <<>>, caught |-> FALSE, composed |-> TRUE,
          update |-> Respond(CASE o = "text" -> PersonaText
                               [] o = "agent_apology" -> AGENT_LLM_APOLOGY
                               [] OTHER -> <<>>)]

mentor_agent_node(s, o, v) ==
    LET routed_query == Get(s, "routed_query", None)
        stock_metrics == Get(s, "stock_metrics", <<>>)
        m == s.user_message
    IN  IF routed_query = None
        THEN [raised |-> FALSE, exc |-> <<>>, caught |-> FALSE, composed |-> FALSE,
              update |-> EmptyUpdate]
        ELSE IF v = "final_re" /\ stock_metrics # <<>> /\ _detect_metric_request(m) # None
        THEN LET f == _format_metric_response(stock_metrics[1], _detect_metric_request(m)[1],
                                              routed_query[1].symbols)
             IN  IF f.raised
                 THEN [raised |-> TRUE, exc |-> f.text, caught |-> FALSE, composed |-> FALSE,
                       update |-> EmptyUpdate]
                 ELSE [raised |-> FALSE, exc |-> <<>>, caught |-> FALSE, composed |-> FALSE,
                       update |-> Respond(f.text)]
        ELSE IF v = "final_re" /\ stock_metrics # <<>> /\ _is_price_only_question(m)
        THEN [raised |-> FALSE, exc |-> <<>>, caught |-> FALSE, composed |-> FALSE,
              update |-> Respond(_format_price_response(stock_metrics[1],
                                                        routed_query[1].symbols))]
        ELSE PersonaPath(o)

-----------------------------------------------------------------------------
(* generate_response_unified and the compiled graph *)

NoCalls == [retr |-> <<>>, retr_raised |-> 0, draft |-> 0, val |-> 0, refine |-> 0,
            composer |-> 0, market |-> <<>>]

RetrieverRaised(o) == o.retr \in {"raise", "fb_raise"}

Variants == {"final", "final_re"}

StartRun(m, guru_id, session_id) ==
    /\ state' = initial_state(m, guru_id, session_id)
    /\ pc' = "router"
    /\ visited' = <<>>
    /\ steps' = 1
    /\ result' = None
    /\ graph_exc' = None
    /\ calls' = NoCalls
    /\ first_pass' = None
    /\ failed' = FALSE

Init ==
    /\ variant \in Variants
    /\ store \in Stores
    /\ bm25_installed \in BOOLEAN
    /\ cache_initialized = FALSE
    /\ cache = EmptyCache
    /\ retriever_cache = EmptyRetrieverCache
    /\ pipelines = <<>>
    /\ other = None
    /\ user_message \in Messages
    /\ session \in SessionIds
    /\ \E guru_id \in GuruIds : state = initial_state(user_message, guru_id, session)
    /\ pc = "router"
    /\ visited = <<>>
    /\ steps = 1
    /\ result = None
    /\ graph_exc = None
    /\ calls = NoCalls
    /\ first_pass = None
    /\ failed = FALSE
    /\ run_no = 1
    /\ ref = None

Env == <<variant, store, bm25_installed, user_message, session, run_no, ref, other, pipelines>>

(* One super-step: the node's update is merged, then the node's edge is    *)
(* evaluated on the merged state.                                          *)
Advance(node, update, next) ==
    /\ state' = ApplyUpdate(state, update)
    /\ visited' = Append(visited, node)
    /\ steps' = steps + 1
    /\ pc' = next

(* The reply taken from the state without the fallback for a falsy response *)
ReturnResponse_no_fallback(s) ==
    LET response == Get(s, "response", Some(<<>>)) IN
    IF response = None THEN <<>> ELSE response[1]

(* result.get("response", "") and the fallback for a falsy response *)
ReturnResponse(s) ==
    LET response == Get(s, "response", Some(<<>>)) IN
    IF Truthy(response) THEN response[1] ELSE NO_RESPONSE_APOLOGY

(* The handler handing back no session id *)
ReturnSessionId_empty_in_handler(session_id, s, raised) ==
    IF raised THEN ""
    ELSE IF session_id # None /\ session_id[1] # "" THEN session_id[1]
    ELSE IF s.session_id # None /\ s.session_id[1] # "" THEN s.session_id[1]
    ELSE ""

(* The second element of the returned tuple: `session_id or                *)
(* result.get("session_id") or ""`, and `session_id or ""` in the handler  *)
ReturnSessionId(session_id, s, raised) ==
    IF session_id # None /\ session_id[1] # "" THEN session_id[1]
    ELSE IF ~raised /\ s.session_id # None /\ s.session_id[1] # "" THEN s.session_id[1]
    ELSE ""

(* except Exception as exc: the exception text is formatted into the reply *)
ReturnGraphError(exc) == RESPONSE_ERROR_PREFIX \o exc

(* A node body raised: nothing is merged, ainvoke raises and               *)
(* generate_response_unified returns from its handler.                     *)
Abort(node, exc) ==
    /\ state' = state
    /\ visited' = Append(visited, node)
    /\ steps' = steps
    /\ pc' = "done"
    /\ graph_exc' = Some(exc)
    /\ failed' = TRUE
    /\ result' = Some(ReturnGraphError(exc))

(* The last node reached END: ainvoke returns the final state and          *)
(* generate_response_unified returns the reply.                            *)
Finish(node, update) ==
    /\ state' = ApplyUpdate(state, update)
    /\ visited' = Append(visited, node)
    /\ steps' = steps + 1
    /\ pc' = "done"
    /\ result' = Some(ReturnResponse(ApplyUpdate(state, update)))

FirstNeedsRefine(fp) ==
    IF fp = None THEN None
    ELSE Some((~fp[1].is_valid) \/ fp[1].confidence < RefineThreshold)

RouterStep ==
    /\ pc = "router"
    /\ steps < MaxSteps
    /\ LET update == [routed_query |-> Some(route_query(state.user_message, state.guru_id))]
       IN  Advance("router", update, route_by_intent(ApplyUpdate(state, update)))
    /\ UNCHANGED <<Env, retriever_cache, cache_initialized, cache, result, graph_exc, calls, first_pass, failed>>

LangchainRagStep ==
    /\ pc = "langchain_rag"
    /\ steps < MaxSteps
    /\ \E o \in RagOutcomes(store, cache_initialized, bm25_installed) :
          LET n == langchain_rag_node(state, o)
              s2 == ApplyUpdate(state, n.update)
          IN  /\ Advance("langchain_rag", n.update, RefineEdge(should_refine_rag(s2)))
              /\ calls' = [calls EXCEPT !.retr = IF n.ran THEN Append(@, n.top_k) ELSE @,
                                        !.retr_raised =
                                            IF n.ran /\ RetrieverRaised(o) THEN @ + 1 ELSE @,
                                        !.draft = IF n.ran THEN @ + n.r.n_draft ELSE @,
                                        !.val = IF n.ran THEN @ + n.r.n_val ELSE @]
              /\ first_pass' = Some([is_valid |-> s2.rag_is_valid,
                                     confidence |-> s2.rag_confidence,
                                     docs |-> s2.rag_docs,
                                     retrieved |-> IF n.ran THEN n.r.docs ELSE 0,
                                     validated_answer |-> s2.validated_answer,
                                     n_draft |-> IF n.ran THEN n.r.n_draft ELSE 0,
                                     n_val |-> IF n.ran THEN n.r.n_val ELSE 0,
                                     pipeline |-> IF n.ran THEN n.r.status ELSE "skipped"])
              /\ failed' = (failed \/ n.caught)
              /\ retriever_cache' =
                    IF n.ran
                    THEN AfterRetrieval(retriever_cache, state.routed_query[1].mentor_id,
                                        n.top_k, o.retr)
                    ELSE retriever_cache
    /\ cache_initialized' = initialize_rag_cache(store, cache_initialized, cache).initialized
    /\ cache' = initialize_rag_cache(store, cache_initialized, cache).cache
    /\ UNCHANGED <<Env, result, graph_exc>>

RefineRagStep ==
    /\ pc = "refine_rag"
    /\ steps < MaxSteps
    /\ \E o \in RagOutcomes(store, cache_initialized, bm25_installed) :
          LET n == refine_rag_node(state, o)
              s2 == ApplyUpdate(state, n.update)
          IN  /\ Advance("refine_rag", n.update, RefineEdge(route_after_refine(s2)))
              /\ calls' = [calls EXCEPT !.retr = IF n.ran THEN Append(@, n.top_k) ELSE @,
                                        !.retr_raised =
                                            IF n.ran /\ RetrieverRaised(o) THEN @ + 1 ELSE @,
                                        !.draft = IF n.ran THEN @ + n.r.n_draft ELSE @,
                                        !.val = IF n.ran THEN @ + n.r.n_val ELSE @,
                                        !.refine = @ + 1]
              /\ failed' = (failed \/ n.caught)
              /\ retriever_cache' =
                    IF n.ran
                    THEN AfterRetrieval(retriever_cache, state.routed_query[1].mentor_id,
                                        n.top_k, o.retr)
                    ELSE retriever_cache
    /\ cache_initialized' = initialize_rag_cache(store, cache_initialized, cache).initialized
    /\ cache' = initialize_rag_cache(store, cache_initialized, cache).cache
    /\ UNCHANGED <<Env, result, graph_exc, first_pass>>

RagLoaderStep ==
    /\ pc = "rag_loader"
    /\ steps < MaxSteps
    /\ LET n == rag_loader_node(state, store, cache_initialized, variant) IN
          IF n.raised
          THEN /\ Abort("rag_loader", n.exc)
               /\ UNCHANGED <<cache_initialized, cache>>
          ELSE /\ Advance("rag_loader", n.update,
                          route_after_legacy_rag(ApplyUpdate(state, n.update)))
               /\ IF state.routed_query = None
                  THEN UNCHANGED <<cache_initialized, cache>>
                  ELSE /\ cache_initialized' =
                             initialize_rag_cache(store, cache_initialized, cache).initialized
                       /\ cache' = initialize_rag_cache(store, cache_initialized, cache).cache
               /\ UNCHANGED <<graph_exc, failed, result>>
    /\ UNCHANGED <<Env, retriever_cache, calls, first_pass>>

RestApiStep ==
    /\ pc = "rest_api"
    /\ steps < MaxSteps
    /\ \E client \in ClientOutcomes :
       \E outs \in [1..Len(state.routed_query[1].symbols) -> SymbolOutcomes] :
          LET n == rest_api_node(state, client, outs, variant) IN
              /\ Advance("rest_api", n.update, "mentor_agent")
              /\ calls' = [calls EXCEPT !.market = @ \o n.fetched]
              /\ failed' = (failed \/ n.caught)
    /\ UNCHANGED <<Env, retriever_cache, cache_initialized, cache, result, graph_exc, first_pass>>

MentorAgentStep ==
    /\ pc = "mentor_agent"
    /\ steps < MaxSteps
    /\ \E o \in ComposerOutcomes :
          LET n == mentor_agent_node(state, o, variant) IN
              IF n.raised
              THEN /\ Abort("mentor_agent", n.exc)
                   /\ UNCHANGED calls
              ELSE /\ Finish("mentor_agent", n.update)
                   /\ calls' = [calls EXCEPT !.composer = IF n.composed THEN @ + 1 ELSE @]
                   /\ failed' = (failed \/ n.caught)
                   /\ UNCHANGED graph_exc
    /\ UNCHANGED <<Env, retriever_cache, cache_initialized, cache, first_pass>>

(* The next request: the same text is sent again to the same process *)
NextRequest ==
    /\ pc = "done"
    /\ run_no < MaxRuns
    /\ ref' = Some([routed_query |-> state.routed_query,
                    visited |-> visited,
                    needs_refine |-> FirstNeedsRefine(first_pass),
                    raised |-> graph_exc # None])
    /\ run_no' = run_no + 1
    /\ StartRun(user_message, state.guru_id, session)
    /\ UNCHANGED <<variant, store, bm25_installed, user_message, session,
                   cache_initialized, cache, retriever_cache, pipelines, other>>

Next ==
    \/ RouterStep
    \/ LangchainRagStep
    \/ RefineRagStep
    \/ RagLoaderStep
    \/ RestApiStep
    \/ MentorAgentStep
    \/ NextRequest

Spec == Init /\ [][Next]_vars

(* The router node alone, on the wider set of messages *)
RouterInit ==
    /\ variant \in Variants
    /\ store \in Stores
    /\ bm25_installed \in BOOLEAN
    /\ cache_initialized = FALSE
    /\ cache = EmptyCache
    /\ retriever_cache = EmptyRetrieverCache
    /\ pipelines = <<>>
    /\ other = None
    /\ user_message \in RouterMessages
    /\ session \in SessionIds
    /\ \E guru_id \in GuruIds : state = initial_state(user_message, guru_id, session)
    /\ pc = "router"
    /\ visited = <<>>
    /\ steps = 1
    /\ result = None
    /\ graph_exc = None
    /\ calls = NoCalls
    /\ first_pass = None
    /\ failed = FALSE
    /\ run_no = 1
    /\ ref = None

RouterSpec == RouterInit /\ [][RouterStep]_vars

(* Two requests served by one process: the event loop runs one coroutine   *)
(* at a time and switches between the two runs where a node body ends.     *)
(* The run that is not executing is kept in `other`.                       *)
Suspended(m, s, p, v, n, r, g, c, f, x) ==
    [user_message |-> m, state |-> s, pc |-> p, visited |-> v, steps |-> n, result |-> r,
     graph_exc |-> g, calls |-> c, first_pass |-> f, failed |-> x]

ConcurrentMessages ==
    {m \in Messages : m.text \in {"stock news", "Samsung PER tell me",
                                  "Samsung holding weight", "Korea US base rate"}}

BackgroundMessages ==
    {m \in Messages : m.text \in {"Samsung holding weight", "Korea US base rate"}}

ConcurrentInit ==
    /\ variant \in Variants
    /\ store \in Stores
    /\ bm25_installed \in BOOLEAN
    /\ cache_initialized = FALSE
    /\ cache = EmptyCache
    /\ retriever_cache = EmptyRetrieverCache
    /\ pipelines = <<>>
    /\ user_message \in ConcurrentMessages
    /\ session \in SessionIds
    /\ \E guru_id \in GuruIds : state = initial_state(user_message, guru_id, session)
    /\ \E m \in BackgroundMessages, guru_id \in GuruIds, session_id \in SessionIds :
          other = Some(Suspended(m, initial_state(m, guru_id, session_id), "router", <<>>, 1,
                                 None, None, NoCalls, None, FALSE))
    /\ pc = "router"
    /\ visited = <<>>
    /\ steps = 1
    /\ result = None
    /\ graph_exc = None
    /\ calls = NoCalls
    /\ first_pass = None
    /\ failed = FALSE
    /\ run_no = 1
    /\ ref = None

Switch ==
    /\ other # None
    /\ pc # "done" \/ other[1].pc # "done"
    /\ other' = Some(Suspended(user_message, state, pc, visited, steps, result, graph_exc,
                               calls, first_pass, failed))
    /\ user_message' = other[1].user_message
    /\ state' = other[1].state
    /\ pc' = other[1].pc
    /\ visited' = other[1].visited
    /\ steps' = other[1].steps
    /\ result' = other[1].result
    /\ graph_exc' = other[1].graph_exc
    /\ calls' = other[1].calls
    /\ first_pass' = other[1].first_pass
    /\ failed' = other[1].failed
    /\ UNCHANGED <<variant, store, bm25_installed, session, cache_initialized, cache,
                   retriever_cache, pipelines, run_no, ref>>

ConcurrentNext ==
    \/ RouterStep
    \/ LangchainRagStep
    \/ RefineRagStep
    \/ RagLoaderStep
    \/ RestApiStep
    \/ MentorAgentStep
    \/ Switch

ConcurrentSpec == ConcurrentInit /\ [][ConcurrentNext]_vars

(* Requests of callers with and without a session id *)
CallerSessionIds == {None, Some(""), Some("session-1")}

SessionMessages ==
    {m \in Messages : m.text \in {"hello", "Samsung PER tell me", "Samsung stock analysis",
                                  "Samsung holding weight"}}

SessionInit ==
    /\ variant \in Variants
    /\ store \in Stores
    /\ bm25_installed \in BOOLEAN
    /\ cache_initialized = FALSE
    /\ cache = EmptyCache
    /\ retriever_cache = EmptyRetrieverCache
    /\ pipelines = <<>>
    /\ other = None
    /\ user_message \in SessionMessages
    /\ session \in CallerSessionIds
    /\ \E guru_id \in GuruIds : state = initial_state(user_message, guru_id, session)
    /\ pc = "router"
    /\ visited = <<>>
    /\ steps = 1
    /\ result = None
    /\ graph_exc = None
    /\ calls = NoCalls
    /\ first_pass = None
    /\ failed = FALSE
    /\ run_no = 1
    /\ ref = None

SessionNext ==
    \/ RouterStep
    \/ LangchainRagStep
    \/ RefineRagStep
    \/ RagLoaderStep
    \/ RestApiStep
    \/ MentorAgentStep

SessionSpec == SessionInit /\ [][SessionNext]_vars

(* Two calls of run_rag_pipeline on one event loop, each from the RAG node *)
(* or from the Refine node.  A call runs from one await to the next        *)
(* without interruption: the retrieval up to the first await, then the     *)
(* draft chain's ainvoke, then the validator chain's ainvoke; the event    *)
(* loop may resume either call at each await.                              *)
PipelineNodes == {"langchain_rag", "refine_rag"}

PipelineTopK(node) == IF node = "refine_rag" THEN RefineTopK ELSE RagTopK

Pipeline(node, guru_id) ==
    [node |-> node, mentor_id |-> normalize_mentor_id(guru_id), at |-> "retrieve",
     docs |-> None]

RetrieverInit ==
    /\ variant \in Variants
    /\ store \in Stores
    /\ bm25_installed \in BOOLEAN
    /\ cache_initialized = FALSE
    /\ cache = EmptyCache
    /\ retriever_cache = EmptyRetrieverCache
    /\ \E n1 \in PipelineNodes, n2 \in PipelineNodes, g1 \in GuruIds, g2 \in GuruIds :
          pipelines = <<Pipeline(n1, g1), Pipeline(n2, g2)>>
    /\ other = None
    /\ user_message \in {m \in Messages : m.text = "Warren Buffett philosophy tell me"}
    /\ session \in SessionIds
    /\ state = initial_state(user_message, "buffett", session)
    /\ pc = "router"
    /\ visited = <<>>
    /\ steps = 1
    /\ result = None
    /\ graph_exc = None
    /\ calls = NoCalls
    /\ first_pass = None
    /\ failed = FALSE
    /\ run_no = 1
    /\ ref = None

Graph == <<state, pc, visited, steps, result, graph_exc, calls, first_pass, failed>>

(* Lines 289-327: the retrieval, and the early return when it found nothing *)
RetrieveStep ==
    \E i \in DOMAIN pipelines :
        /\ pipelines[i].at = "retrieve"
        /\ \E retr \in RetrOutcomes(store, cache_initialized, bm25_installed) :
              LET p == pipelines[i]
                  top_k == PipelineTopK(p.node)
                  docs == IF retr = "docs"
                          THEN retrieve_docs(retriever_cache, p.mentor_id, top_k).docs
                          ELSE IF retr = "fb_docs" THEN Min(top_k, CorpusSize)
                          ELSE 0
              IN  /\ retriever_cache' = AfterRetrieval(retriever_cache, p.mentor_id, top_k, retr)
                  /\ pipelines' = [pipelines EXCEPT
                                      ![i].docs = IF retr = "fb_raise" THEN None ELSE Some(docs),
                                      ![i].at = IF retr = "fb_raise" THEN "raised"
                                                ELSE IF docs = 0 THEN "returned"
                                                ELSE "draft"]
        /\ cache_initialized' = initialize_rag_cache(store, cache_initialized, cache).initialized
        /\ cache' = initialize_rag_cache(store, cache_initialized, cache).cache
        /\ UNCHANGED <<variant, store, bm25_installed, user_message, session, run_no, ref, other,
                       Graph>>

(* Lines 329-358: await rag_chain.ainvoke *)
DraftStep ==
    \E i \in DOMAIN pipelines :
        /\ pipelines[i].at = "draft"
        /\ pipelines' = [pipelines EXCEPT ![i].at = "validate"]
        /\ UNCHANGED <<variant, store, bm25_installed, user_message, session, run_no, ref, other,
                       cache_initialized, cache, retriever_cache, Graph>>

(* Lines 360-405: await validator_chain.ainvoke, and the return *)
ValidateStep ==
    \E i \in DOMAIN pipelines :
        /\ pipelines[i].at = "validate"
        /\ pipelines' = [pipelines EXCEPT ![i].at = "returned"]
        /\ UNCHANGED <<variant, store, bm25_installed, user_message, session, run_no, ref, other,
                       cache_initialized, cache, retriever_cache, Graph>>

RetrieverNext ==
    \/ RetrieveStep
    \/ DraftStep
    \/ ValidateStep

RetrieverSpec == RetrieverInit /\ [][RetrieverNext]_vars

-----------------------------------------------------------------------------
(* Properties of a run *)

Visited(node) == \E i \in 1..Len(visited) : visited[i] = node

Intent == IF state.routed_query = None THEN "" ELSE state.routed_query[1].intent

Returned == pc = "done" /\ result # None

(* Distance of a position of the run from the return of                    *)
(* generate_response_unified, along the edges of the compiled graph.       *)
Rank(p) ==
    CASE p = "router" -> 6
      [] p = "langchain_rag" -> 5
      [] p = "refine_rag" -> 4
      [] p = "rag_loader" -> 3
      [] p = "rest_api" -> 2
      [] p = "mentor_agent" -> 1
      [] OTHER -> 0

(* The guards of the step of the node at pc: the node is one of the graph  *)
(* and its collaborators have an outcome to give.                          *)
CanStep ==
    /\ pc \in Nodes
    /\ steps < MaxSteps
    /\ pc \in {"langchain_rag", "refine_rag"} =>
          RetrOutcomes(store, cache_initialized, bm25_installed) # {}

RetrieverAlwaysRaised == calls.retr # <<>> /\ calls.retr_raised = Len(calls.retr)

(* C2: when the retriever raised on every call of the run (in the RAG node *)
(* and in the Refine node), the run has still returned a non-empty string  *)
(* to the caller.                                                          *)
C2_FailSoft ==
    (pc = "done" /\ RetrieverAlwaysRaised) => (result # None /\ result[1] # <<>>)

(* The retriever raised in the RAG node and in the Refine node, and the    *)
(* graph ran to its end.                                                   *)
C2_RaisedTwiceReturned ==
    /\ Returned
    /\ RetrieverAlwaysRaised
    /\ Len(calls.retr) = 2
    /\ graph_exc = None
    /\ result[1] # <<>>

FirstPassIs(is_valid, confidence) ==
    /\ first_pass # None
    /\ first_pass[1].pipeline = "ok"
    /\ first_pass[1].is_valid = is_valid
    /\ first_pass[1].confidence = confidence

(* C3: after a first pass validated as {is_valid: false, confidence: 0.3}  *)
(* the run is about to refine, or it has refined exactly once, retrieving  *)
(* with top_k = 10 after the first top_k = 5, and is past the Refine node  *)
(* whatever the refinement pass yielded.                                   *)
C3_RefinementTrigger ==
    FirstPassIs(FALSE, 30) =>
        \/ /\ pc = "refine_rag"
           /\ calls.refine = 0
           /\ calls.retr = <<5>>
        \/ /\ pc \in {"rag_loader", "rest_api", "mentor_agent", "done"}
           /\ calls.refine = 1
           /\ calls.retr = <<5, 10>>

(* The refinement pass was validated as low again, and the run went on to  *)
(* the composer and returned.                                              *)
C3_LowTwiceRefinedOnce ==
    /\ Returned
    /\ FirstPassIs(FALSE, 30)
    /\ calls.val = 2
    /\ ~state.rag_is_valid
    /\ state.rag_confidence = 30
    /\ calls.refine = 1
    /\ Visited("mentor_agent")

(* C4: the refinement counter that the routing reads in the state equals   *)
(* the number of executions of the Refine node (0, then 1).                *)
C4_CounterCountsRefinements ==
    Get(state, "_rag_refinement_count", 0) = calls.refine

(* C5: once mentor_agent_node has executed, no exception has left it and   *)
(* the response it wrote is a non-empty text without exception text.       *)
C5_ComposerAlwaysResponds ==
    Visited("mentor_agent") =>
        /\ graph_exc = None
        /\ Truthy(state.response)
        /\ ~ContainsExcText(state.response[1])

(* C6: in a run in which a node or the graph failed, the returned string   *)
(* carries no text of the raised exception.                                *)
C6_NoExceptionTextReturned ==
    (Returned /\ failed) => ~ContainsExcText(result[1])

(* C7: a run has never returned without the Response Composer having       *)
(* executed: a node's exception does not abort the run.                    *)
C7_ComposerAlwaysExecuted ==
    Returned => Visited("mentor_agent")

(* The routing table of the first specialist node *)
FirstSpecialist(intent) ==
    CASE intent \in {"HISTORICAL_DATA", "MACRO_OUTLOOK"} -> "rag_loader"
      [] intent \in {"PHILOSOPHY", "COMPANY_ANALYSIS", "COMPARE_COMPANIES",
                     "NEWS_ANALYSIS", "RESEARCH_ANALYSIS"} -> "langchain_rag"
      [] intent = "COMPANY_METRICS" -> "rest_api"
      [] OTHER -> "mentor_agent"

SymbolLists == {<<>>, <<Samsung>>, <<Samsung, Hynix>>}

(* C8: the node after the router is the routing table's node for the       *)
(* intent, whatever the symbols are; an unset routed_query goes to the     *)
(* Response Composer; a SMALLTALK run visits the router and the Response   *)
(* Composer only.                                                          *)
C8_RoutingTable ==
    /\ \A intent \in Intents, symbols \in SymbolLists :
          pc = "router" =>
          route_by_intent([state EXCEPT !.routed_query =
              Some(RoutedQuery(intent, "buffett", symbols, None, <<>>, None))])
          = FirstSpecialist(intent)
    /\ pc = "router" => route_by_intent(state) = "mentor_agent"
    /\ Len(visited) >= 2 => visited[2] = FirstSpecialist(Intent)
    /\ (Len(visited) >= 2 /\ Intent = "SMALLTALK") => visited = <<"router", "mentor_agent">>

(* A COMPANY_METRICS run went from the router to the live metrics fetcher  *)
C8_MetricsRunRouted ==
    /\ Returned
    /\ Intent = "COMPANY_METRICS"
    /\ state.routed_query[1].symbols # <<>>
    /\ visited = <<"router", "rest_api", "mentor_agent">>

SameRoutedQuery ==
    /\ ref # None
    /\ state.routed_query # None
    /\ ref[1].routed_query = state.routed_query

(* C9 as stated: two returned runs whose router produced the same          *)
(* routed_query visited the same nodes in the same order.                  *)
C9_SameQuerySameNodes ==
    (pc = "done" /\ SameRoutedQuery) => visited = ref[1].visited

(* C9 amended: two returned runs whose router produced the same            *)
(* routed_query, and whose first RAG pass (if any) was judged alike by the *)
(* refinement test, visited the same nodes in the same order.              *)
C9_SameQuerySameVerdictSameNodes ==
    (pc = "done" /\ SameRoutedQuery /\ ref[1].needs_refine = FirstNeedsRefine(first_pass))
        => visited = ref[1].visited

(* Two runs of one request that both refined and took the longest path *)
C9_TwoRefinedRunsAgree ==
    /\ pc = "done"
    /\ SameRoutedQuery
    /\ ref[1].needs_refine = Some(TRUE)
    /\ FirstNeedsRefine(first_pass) = Some(TRUE)
    /\ Len(visited) = 6
    /\ visited = ref[1].visited

FirstPassEmpty ==
    /\ first_pass # None
    /\ first_pass[1].pipeline = "ok"
    /\ first_pass[1].retrieved = 0

(* C10 as stated: after a RAG pass that retrieved no document, the node    *)
(* that follows the RAG node is the Response Composer.                     *)
C10_EmptyRetrievalShortCircuits ==
    (FirstPassEmpty /\ Len(visited) >= 3) => visited[3] = "mentor_agent"

(* C10 amended: a RAG pass that retrieved no document writes the 'no       *)
(* evidence' answer with is_valid false and confidence 0 without calling   *)
(* the draft generator or the validator, and the node that follows the RAG *)
(* node is the Refine node.                                                *)
C10_EmptyRetrievalRefines ==
    FirstPassEmpty =>
        /\ first_pass[1].validated_answer = Some(RAG_NO_DOCS_ANSWER)
        /\ ~first_pass[1].is_valid
        /\ first_pass[1].confidence = 0
        /\ first_pass[1].n_draft = 0
        /\ first_pass[1].n_val = 0
        /\ Len(visited) = 2 => pc = "refine_rag"
        /\ Len(visited) >= 3 => visited[3] = "refine_rag"

(* A run whose RAG pass retrieved nothing refined and reached the composer *)
C10_EmptyThenRefined ==
    /\ Returned
    /\ FirstPassEmpty
    /\ visited[3] = "refine_rag"
    /\ Visited("mentor_agent")

-----------------------------------------------------------------------------
(* Properties of the live metrics fetcher *)

(* Position of the first execution of a node in the run, 0 if none *)
PositionOf(node) ==
    IF Visited(node) THEN CHOOSE i \in 1..Len(visited) : visited[i] = node ELSE 0

(* A fetch that returned a snapshot the normaliser keeps: the call did not *)
(* raise (a timeout raises), the payload is a dict and its return_code is  *)
(* absent or zero.                                                         *)
AcceptedFetch(so) ==
    /\ so.fetch = "ok"
    /\ so.raw.is_dict
    /\ so.raw.return_code \in {None, Some(0)}

(* The symbols whose fetch was accepted, in the order of the symbols *)
RECURSIVE RemainingSymbols(_, _)
RemainingSymbols(symbols, outs) ==
    IF symbols = <<>> THEN <<>>
    ELSE (IF AcceptedFetch(outs[1]) THEN <<symbols[1]>> ELSE <<>>)
         \o RemainingSymbols(Tail(symbols), Tail(outs))

SymbolsOf(seq) == [i \in 1..Len(seq) |-> seq[i].symbol]

FetchOutcomes(symbols) == [1..Len(symbols) -> SymbolOutcomes]

ClientConstructed == {"ok", "close_raise"}

(* C11: whatever each symbol's fetch does (raise, time out, return a       *)
(* non-dict or a non-zero return_code, or succeed), the live metrics       *)
(* fetcher with its client constructed writes exactly one entry per symbol *)
(* whose fetch was accepted, in the order of the symbols; the node raises  *)
(* nothing, and the node after it is the Response Composer.                *)
C11_FetchFailuresIsolated ==
    /\ pc = "rest_api" =>
          \A client \in ClientConstructed :
          \A outs \in FetchOutcomes(state.routed_query[1].symbols) :
             SymbolsOf(rest_api_node(state, client, outs, variant).update.stock_metrics)
             = RemainingSymbols(state.routed_query[1].symbols, outs)
    /\ Visited("rest_api") =>
          /\ calls.market \in {<<>>, state.routed_query[1].symbols}
          /\ PositionOf("rest_api") = Len(visited) => (pc = "mentor_agent" /\ graph_exc = None)
          /\ PositionOf("rest_api") < Len(visited) =>
                visited[PositionOf("rest_api") + 1] = "mentor_agent"

(* Both symbols were fetched, one entry was written, for the second symbol, *)
(* and the run went on through the composer.                               *)
C11_OneOfTwoFailed ==
    /\ Returned
    /\ calls.market = <<Samsung, Hynix>>
    /\ SymbolsOf(state.stock_metrics) = <<Hynix>>
    /\ visited[Len(visited)] = "mentor_agent"

(* C12: for every fetch the normaliser keeps whose raw 52-week low is a    *)
(* number n, the entry the live metrics fetcher writes for that symbol has *)
(* low_52w = -n when n is negative and low_52w = n otherwise.              *)
C12_LowIsAbsolute ==
    pc = "rest_api" =>
        \A client \in ClientConstructed :
        \A outs \in FetchOutcomes(state.routed_query[1].symbols) :
           LET stock_metrics == rest_api_node(state, client, outs, variant).update.stock_metrics
               kept == SelectSeq(outs, AcceptedFetch)
           IN  /\ Len(stock_metrics) = Len(kept)
               /\ \A i \in 1..Len(kept) :
                     LET n == kept[i].raw.oyr_lwst IN
                     n # None =>
                        stock_metrics[i].low_52w = Some(IF n[1] < 0 THEN -n[1] ELSE n[1])

-----------------------------------------------------------------------------
(* Properties of the router *)

Routed == state.routed_query # None

(* C13: a message with at least one resolved symbol, a price/indicator     *)
(* keyword and no analytical keyword is routed as COMPANY_METRICS, also    *)
(* when it carries a RAG trigger phrase, a persona name with an economy    *)
(* keyword, a macro keyword or a comparison keyword with two symbols.      *)
C13_MetricsRuleWins ==
    (Routed /\ user_message.symbols # <<>> /\ user_message.metric_kw
            /\ ~user_message.analysis_kw)
        => state.routed_query[1].intent = "COMPANY_METRICS"

(* 'Samsung PER tell me' was routed as COMPANY_METRICS *)
C13_PerQuestionIsMetrics ==
    /\ Routed
    /\ user_message.text = "Samsung PER tell me"
    /\ user_message.rag_kw
    /\ state.routed_query[1].intent = "COMPANY_METRICS"
    /\ pc = "rest_api"

ComparisonOfTwo == user_message.comparison_kw /\ Len(user_message.symbols) >= 2

(* C14 as stated: a message with a comparison keyword and at least two     *)
(* resolved symbols is routed as COMPARE_COMPANIES with those symbols.     *)
C14_ComparisonIsCompare ==
    (Routed /\ ComparisonOfTwo) =>
        /\ state.routed_query[1].intent = "COMPARE_COMPANIES"
        /\ state.routed_query[1].symbols = user_message.symbols

(* The message is a metrics question when the metrics rule is evaluated:   *)
(* it has symbols, a price/indicator keyword and no analytical keyword, or *)
(* the coarse detector called it stock_metrics and no historical or macro  *)
(* keyword replaced that.                                                  *)
MetricsQuestion ==
    \/ /\ user_message.symbols # <<>>
       /\ user_message.metric_kw
       /\ ~user_message.analysis_kw
    \/ /\ user_message.detected = "stock_metrics"
       /\ ~user_message.hist_kw
       /\ ~(user_message.past_kw /\ ~user_message.said_kw)
       /\ ~user_message.macro_kw

(* C14 amended: a message with a comparison keyword and at least two       *)
(* resolved symbols is routed with those symbols, as COMPANY_METRICS when  *)
(* it is a metrics question at the metrics rule and as COMPARE_COMPANIES   *)
(* otherwise, whatever the coarse intent, the historical, macro, RAG and   *)
(* persona keywords are.                                                   *)
C14_ComparisonUnlessMetrics ==
    (Routed /\ ComparisonOfTwo) =>
        /\ state.routed_query[1].symbols = user_message.symbols
        /\ state.routed_query[1].intent =
              IF MetricsQuestion THEN "COMPANY_METRICS" ELSE "COMPARE_COMPANIES"

(* A message the coarse detector called smalltalk was routed as a          *)
(* comparison of its two symbols.                                          *)
C14_SmalltalkBecameComparison ==
    /\ Routed
    /\ ComparisonOfTwo
    /\ user_message.detected = "smalltalk"
    /\ state.routed_query[1].intent = "COMPARE_COMPANIES"
    /\ state.routed_query[1].symbols = <<Samsung, Hynix>>
    /\ pc = "langchain_rag"

-----------------------------------------------------------------------------
(* Properties of a comparison run *)

ComparisonRun ==
    /\ Routed
    /\ state.routed_query[1].intent = "COMPARE_COMPANIES"
    /\ Len(state.routed_query[1].symbols) = 2

(* The path of a comparison whose first pass did or did not need refining *)
ComparisonPath(refined) ==
    <<"router", "langchain_rag">> \o (IF refined THEN <<"refine_rag">> ELSE <<>>)
    \o <<"rag_loader", "rest_api", "mentor_agent">>

(* C15: a run routed as COMPARE_COMPANIES with exactly 2 symbols that has  *)
(* ended visited the RAG node, the Refine node once if and only if the     *)
(* first validation was invalid or below 0.6, the Historical Loader, the   *)
(* Live Metrics Fetcher and the Response Composer, in this order; and a    *)
(* fetcher whose two fetches are accepted writes exactly 2 entries.        *)
C15_ComparisonPath ==
    /\ (ComparisonRun /\ pc = "done") =>
          visited = ComparisonPath(FirstNeedsRefine(first_pass) = Some(TRUE))
    /\ (ComparisonRun /\ pc = "rest_api") =>
          \A client \in ClientConstructed :
          \A outs \in FetchOutcomes(state.routed_query[1].symbols) :
             (\A i \in 1..2 : AcceptedFetch(outs[i])) =>
                Len(rest_api_node(state, client, outs, variant).update.stock_metrics) = 2

-----------------------------------------------------------------------------
(* Properties of two runs in one process *)

LoadedRows == [philosophy |-> CorpusSize, portfolio |-> store.portfolio, macro |-> store.macro]

(* The fields of a run's state that name the request it serves *)
OwnState(s, m) ==
    /\ s.user_message = m
    /\ s.routed_query # None =>
          (s.routed_query[1].query_text = m.text /\ s.routed_query[1].symbols = m.symbols)

-----------------------------------------------------------------------------
(* Properties of the resolved symbols *)

NoDuplicates(seq) == \A i, j \in 1..Len(seq) : seq[i] = seq[j] => i = j

(* C17: the symbols of the routed query produced by the router node hold   *)
(* no symbol twice and number at most three, whatever the message.         *)
C17_SymbolsDistinctCapped ==
    Routed => (NoDuplicates(state.routed_query[1].symbols)
               /\ Len(state.routed_query[1].symbols) <= 3)

-----------------------------------------------------------------------------
(* Properties of the refinement decision *)

LeftNode(node) == visited # <<>> /\ visited[Len(visited)] = node /\ graph_exc = None

NextByIntent(s) ==
    LET rq == s.routed_query[1] IN
    IF s.routed_query = None THEN "mentor_agent"
    ELSE IF rq.intent \in {"COMPANY_ANALYSIS", "COMPARE_COMPANIES", "NEWS_ANALYSIS",
                           "RESEARCH_ANALYSIS"} /\ rq.symbols # <<>> THEN "rag_loader"
    ELSE IF rq.intent \in {"COMPANY_METRICS", "COMPANY_ANALYSIS", "COMPARE_COMPANIES"}
            /\ rq.symbols # <<>> THEN "rest_api"
    ELSE "mentor_agent"

(* C19: when the RAG node is left without a refinement, and when the       *)
(* Refine node is left, the next node is the Historical Loader for a       *)
(* company, comparison, news or research intent with symbols, else the     *)
(* Live Metrics Fetcher for a price-bearing intent with symbols, else the  *)
(* Response Composer: the same choice with and without a refinement.       *)
C19_NextNodeByIntent ==
    ((LeftNode("langchain_rag") /\ pc # "refine_rag") \/ LeftNode("refine_rag"))
        => pc = NextByIntent(state)

-----------------------------------------------------------------------------
(* Properties of the Refine node *)

(* A refinement whose retrieval, draft generation or validation fails, or  *)
(* that retrieves no documents                                             *)
Unsuccessful(o) ==
    \/ o.retr \in {"none", "raise", "fb_none", "fb_raise"}
    \/ o.chain = "raise"
    \/ o.draft = "raise"
    \/ o.val.kind = "raise"

RagStateFields ==
    {"rag_docs", "draft_answer", "validated_answer", "rag_is_valid", "rag_confidence",
     "rag_issues"}

(* C20: an unsuccessful refinement leaves the retrieved documents, the     *)
(* draft, the validated answer, the validity, the confidence and the       *)
(* issues of the state as the first RAG pass left them.                    *)
C20_RefineFailSoft ==
    pc = "refine_rag" =>
        \A o \in RagOutcomes(store, cache_initialized, bm25_installed) :
            Unsuccessful(o) =>
                LET s2 == ApplyUpdate(state, refine_rag_node(state, o).update)
                IN  \A k \in RagStateFields : s2[k] = state[k]

-----------------------------------------------------------------------------
(* Properties of the Historical Loader *)

(* C21: when the Historical Loader has returned, the next node is the Live *)
(* Metrics Fetcher exactly when the intent is COMPANY_ANALYSIS or          *)
(* COMPARE_COMPANIES and there are symbols, and the Response Composer in   *)
(* every other case; the edge decides so for every intent and symbol list. *)
C21_LoaderEdge ==
    LeftNode("rag_loader") =>
        /\ pc = "rest_api" <=>
               (Intent \in {"COMPANY_ANALYSIS", "COMPARE_COMPANIES"}
                /\ state.routed_query[1].symbols # <<>>)
        /\ pc # "rest_api" => pc = "mentor_agent"
        /\ \A intent \in Intents, symbols \in SymbolLists :
               route_after_legacy_rag([state EXCEPT !.routed_query =
                   Some(RoutedQuery(intent, "buffett", symbols, None, <<>>, None))])
               = IF intent \in {"COMPANY_ANALYSIS", "COMPARE_COMPANIES"} /\ symbols # <<>>
                 THEN "rest_api" ELSE "mentor_agent"

(* A portfolio question about a symbol went from the loader to the         *)
(* Response Composer                                                       *)
C21_HistoricalWithSymbolToComposer ==
    /\ LeftNode("rag_loader")
    /\ Intent = "HISTORICAL_DATA"
    /\ state.routed_query[1].symbols # <<>>
    /\ pc = "mentor_agent"

(* Most recent first *)
Descending(seq, key) == \A i, j \in 1..Len(seq) : i < j => seq[i][key] >= seq[j][key]

SnapshotsFor(seq, mentor_id, symbol) ==
    \A i \in 1..Len(seq) :
        /\ normalize_mentor_id(seq[i].guru_id) = mentor_id
        /\ symbol # None => symbol[1] \in seq[i].symbols

RequestedRegions(rq) ==
    IF rq.macro_regions # None /\ rq.macro_regions[1] # <<>> THEN rq.macro_regions[1]
    ELSE IF rq.region # None THEN <<rq.region[1]>> ELSE <<"KR">>

RegionRows(region) ==
    IF region \in DOMAIN store.macro
    THEN SelectSeq(store.macro[region], LAMBDA r : r.region = region) ELSE <<>>

IsCoverageOf(record, region) ==
    /\ record.record_type = "coverage_summary"
    /\ record.region = region
    /\ record.total_rows = Len(RegionRows(region))
    /\ \A i \in 1..Len(RegionRows(region)) :
          record.start <= RegionRows(region)[i].period
          /\ RegionRows(region)[i].period <= record.end

(* The records are, region after region, one coverage summary followed by  *)
(* at most four rows of the region, and nothing for a region without rows. *)
RECURSIVE CoveragePrefixed(_, _)
CoveragePrefixed(data, regions) ==
    IF regions = <<>> THEN data = <<>>
    ELSE IF RegionRows(regions[1]) = <<>> THEN CoveragePrefixed(data, Tail(regions))
    ELSE /\ data # <<>>
         /\ IsCoverageOf(data[1], regions[1])
         /\ \E n \in 0..4 :
               /\ n + 1 <= Len(data)
               /\ \A i \in 2..(n + 1) : data[i].record_type = "row"
                                         /\ data[i].region = regions[1]
               /\ CoveragePrefixed(SubSeq(data, n + 2, Len(data)), Tail(regions))

(* C22: what the Historical Loader returns: for HISTORICAL_DATA at most 5  *)
(* snapshots of the first symbol, or at most 10 without a symbol, most     *)
(* recent first; for the analysis intents at most 3 snapshots of the first *)
(* symbol and none without symbols; for MACRO_OUTLOOK, per requested       *)
(* region with data, one coverage summary followed by at most 4 records of *)
(* the region; and the field of the other branch is empty.                 *)
C22_LoaderBounds ==
    LeftNode("rag_loader") =>
        LET rq == state.routed_query[1]
            first == IF rq.symbols = <<>> THEN None ELSE Some(rq.symbols[1])
            portfolio == state.portfolio_history
        IN  /\ Intent = "HISTORICAL_DATA" =>
                  /\ Len(portfolio) <= (IF rq.symbols = <<>> THEN 10 ELSE 5)
                  /\ SnapshotsFor(portfolio, rq.mentor_id, first)
                  /\ Descending(portfolio, "as_of")
                  /\ state.macro_data = <<>>
            /\ Intent \in {"COMPANY_ANALYSIS", "COMPARE_COMPANIES", "NEWS_ANALYSIS",
                            "RESEARCH_ANALYSIS"} =>
                  /\ Len(portfolio) <= 3
                  /\ rq.symbols = <<>> => portfolio = <<>>
                  /\ SnapshotsFor(portfolio, rq.mentor_id, first)
                  /\ Descending(portfolio, "as_of")
                  /\ state.macro_data = <<>>
            /\ Intent = "MACRO_OUTLOOK" =>
                  /\ portfolio = <<>>
                  /\ CoveragePrefixed(state.macro_data, RequestedRegions(rq))

(* C23: the Historical Loader returns normally whatever fails inside it:   *)
(* no exception leaves the node, and no run ends in the loader.            *)
C23_LoaderNeverRaises ==
    /\ pc = "rag_loader" =>
           ~rag_loader_node(state, store, cache_initialized, variant).raised
    /\ (visited # <<>> /\ visited[Len(visited)] = "rag_loader") => graph_exc = None

-----------------------------------------------------------------------------
(* Properties of the RAG node *)

(* The retriever, the draft generator or the validator raises, or the      *)
(* validator's output cannot be parsed                                     *)
PipelineFailure(o) ==
    \/ RetrieverRaised(o)
    \/ o.retr \in {"docs", "fb_docs"}
       /\ (o.chain = "raise" \/ o.draft = "raise" \/ o.val.kind \in {"raise", "nondict"})

(* C24: a failure of the retriever, the draft generator or the validator   *)
(* inside the RAG node leaves the node with rag_is_valid false and a       *)
(* diagnostic in rag_issues.                                               *)
C24_FailureDowngrades ==
    pc = "langchain_rag" =>
        \A o \in RagOutcomes(store, cache_initialized, bm25_installed) :
            PipelineFailure(o) =>
                LET s2 == ApplyUpdate(state, langchain_rag_node(state, o).update)
                IN  ~s2.rag_is_valid /\ s2.rag_issues # <<>>

-----------------------------------------------------------------------------
(* Properties of the Response Composer *)

IndicatorValue(metric, metric_key) ==
    CASE metric_key = "PER" -> metric.pe
      [] metric_key = "PEG" -> metric.peg
      [] OTHER -> None

CouldNotLoad ==
    {"could not be loaded", "current price could not be loaded",
     "PEG needs the EPS growth, not found", "PEG cannot be computed"}

(* The one-line answer states the value, or that it could not be loaded *)
StatesValue(response, value) ==
    /\ response # None
    /\ IF value = None
       THEN \E i \in 1..Len(response[1]) : response[1][i] \in CouldNotLoad
       ELSE \E i \in 1..Len(response[1]) : response[1][i] = ToString(value[1])

(* C25: with live metrics and a single-indicator question the response is  *)
(* the one-line answer with the indicator's value (or that it could not be *)
(* loaded) and the persona composer is not invoked; otherwise with live    *)
(* metrics and a bare price question it is the one-line price answer,      *)
(* again without the persona composer; without live metrics the persona    *)
(* composer is invoked.                                                    *)
C25_FastPaths ==
    (pc = "mentor_agent" /\ state.routed_query # None) =>
        \A o \in ComposerOutcomes :
            LET n == mentor_agent_node(state, o, variant)
                stock_metrics == state.stock_metrics
                metric_key == _detect_metric_request(state.user_message)
            IN  /\ (stock_metrics # <<>> /\ metric_key # None) =>
                       /\ ~n.raised
                       /\ ~n.composed
                       /\ StatesValue(n.update.response,
                                      IndicatorValue(stock_metrics[1], metric_key[1]))
                /\ (stock_metrics # <<>> /\ metric_key = None
                    /\ _is_price_only_question(state.user_message)) =>
                       /\ ~n.raised
                       /\ ~n.composed
                       /\ StatesValue(n.update.response, stock_metrics[1].price)
                /\ stock_metrics = <<>> => n.composed

(* The terminal node has completed *)
ComposerCompleted == LeftNode("mentor_agent")

Executions(node) == Cardinality({i \in 1..Len(visited) : visited[i] = node})

(* C26: the response of the state is set exactly when the Response         *)
(* Composer has completed: no other node sets it, the composer executes at *)
(* most once, and no node executes once it is set.                         *)
C26_ResponseSetByComposer ==
    /\ state.response # None <=> ComposerCompleted
    /\ state.response # None => pc = "done"
    /\ Executions("mentor_agent") <= 1
    /\ Visited("mentor_agent") => visited[Len(visited)] = "mentor_agent"

(* A run through the RAG node and the Historical Loader ended with the     *)
(* response set by the composer                                            *)
C26_SetAtTheEnd ==
    /\ ComposerCompleted
    /\ Visited("langchain_rag")
    /\ Visited("rag_loader")
    /\ state.response # None
    /\ pc = "done"

-----------------------------------------------------------------------------
(* Properties of the request fields *)

ReturnedSessionId == Some(ReturnSessionId(session, state, graph_exc # None))

(* The routed query is unset before the router node and from then on the   *)
(* one the router node produced; the message and the session id of the     *)
(* state are the caller's.                                                 *)
RequestFieldsKept ==
    /\ state.user_message = user_message
    /\ state.session_id = session
    /\ state.routed_query =
          IF Visited("router") THEN Some(route_query(user_message, state.guru_id)) ELSE None

(* C27 as stated: the request fields are kept and the session id handed    *)
(* back is the caller's.                                                   *)
C27_SessionHandedBack ==
    /\ RequestFieldsKept
    /\ pc = "done" => ReturnedSessionId = session

(* C27: the routed query is set by the router node only and no later node  *)
(* changes it, the message or the session id of the state; the session id  *)
(* handed back is the caller's, or the empty string when the caller passed *)
(* none.                                                                   *)
C27_SessionHandedBackOrEmpty ==
    /\ RequestFieldsKept
    /\ pc = "done" => ReturnedSessionId = (IF session = None THEN Some("") ELSE session)

(* A run of a caller with a session id went through every kind of node     *)
(* after the router and returned                                           *)
C27_SessionRunReturned ==
    /\ Returned
    /\ session = Some("session-1")
    /\ visited = <<"router", "langchain_rag", "refine_rag", "rag_loader", "rest_api",
                   "mentor_agent">>
    /\ state.routed_query # None

-----------------------------------------------------------------------------
(* Properties of router rule (d) *)

(* The portfolio/ownership rule of route_query fired: a holdings keyword,  *)
(* or a word for the past without a word for a remark                      *)
PortfolioRuleFired ==
    user_message.hist_kw \/ (user_message.past_kw /\ ~user_message.said_kw)

(* The metrics rule of route_query fired *)
MetricsRuleFired ==
    user_message.symbols # <<>> /\ user_message.metric_kw /\ ~user_message.analysis_kw

(* The message carries what rule (d) looks for *)
PhilosophyTrigger ==
    user_message.rag_kw \/ (user_message.mentor_name /\ user_message.philosophy_kw)

(* C28: for every message for which the portfolio/ownership rule or the    *)
(* metrics rule has fired, route_query does not return PHILOSOPHY, also    *)
(* when the message carries a RAG trigger phrase or a persona name with a  *)
(* philosophy keyword.                                                     *)
C28_PhilosophyNeverOverrides ==
    (Routed /\ (PortfolioRuleFired \/ MetricsRuleFired))
        => state.routed_query[1].intent # "PHILOSOPHY"

(* 'Buffett portfolio philosophy tell me' carries a trigger phrase, the    *)
(* persona name and a philosophy keyword, and was routed as HISTORICAL_DATA *)
C28_PortfolioPhilosophyIsHistorical ==
    /\ Routed
    /\ user_message.text = "Buffett portfolio philosophy tell me"
    /\ PortfolioRuleFired
    /\ PhilosophyTrigger
    /\ state.routed_query[1].intent = "HISTORICAL_DATA"

-----------------------------------------------------------------------------
(* Properties of the order of the nodes *)

(* The place of a node in the graph: router, RAG, Refine, Historical       *)
(* Loader, Live Metrics Fetcher, Response Composer                         *)
NodeRank(node) ==
    CASE node = "router" -> 1
      [] node = "langchain_rag" -> 2
      [] node = "refine_rag" -> 3
      [] node = "rag_loader" -> 4
      [] node = "rest_api" -> 5
      [] node = "mentor_agent" -> 6

PriceAnalysisRun ==
    Routed /\ state.routed_query[1].intent \in {"COMPANY_ANALYSIS", "COMPARE_COMPANIES"}

(* C29: in every run the nodes that executed appear in the order router,   *)
(* RAG, Refine, Historical Loader, Live Metrics Fetcher, Response Composer, *)
(* each at most once; the node that is active is a single node later than  *)
(* all that executed; the Live Metrics Fetcher is never entered directly   *)
(* from the RAG or the Refine node, and in a COMPANY_ANALYSIS or           *)
(* COMPARE_COMPANIES run the Historical Loader executed before it.         *)
C29_NodesOnceInOrder ==
    /\ \A i, j \in 1..Len(visited) :
          i < j => NodeRank(visited[i]) < NodeRank(visited[j])
    /\ \A node \in Nodes : Executions(node) <= 1
    /\ pc \in Nodes =>
          \A i \in 1..Len(visited) : NodeRank(visited[i]) < NodeRank(pc)
    /\ \A i \in 2..Len(visited) :
          visited[i] = "rest_api" => visited[i - 1] \notin {"langchain_rag", "refine_rag"}
    /\ (pc = "rest_api" /\ visited # <<>>) =>
          visited[Len(visited)] \notin {"langchain_rag", "refine_rag"}
    /\ (PriceAnalysisRun /\ (pc = "rest_api" \/ Visited("rest_api"))) =>
          /\ Visited("rag_loader")
          /\ Visited("rest_api") => PositionOf("rag_loader") < PositionOf("rest_api")

(* A COMPANY_ANALYSIS run went through all six nodes, the fetcher entered  *)
(* from the Historical Loader after a refinement                           *)
C29_AllSixInOrder ==
    /\ PriceAnalysisRun
    /\ visited = <<"router", "langchain_rag", "refine_rag", "rag_loader", "rest_api",
                   "mentor_agent">>
    /\ state.routed_query[1].intent = "COMPANY_ANALYSIS"
    /\ Executions("rest_api") = 1

-----------------------------------------------------------------------------
(* Properties of the shared retriever *)

Retrieved(i) == pipelines[i].docs # None

SamePersona == pipelines[1].mentor_id = pipelines[2].mentor_id

(* C30: with one BM25 retriever per persona shared by all calls, in every  *)
(* interleaving of two calls of the pipeline, one from the RAG node        *)
(* (top_k 5) and one from the Refine node (top_k 10), on the same persona  *)
(* or not, each retrieval returns at most its own top_k documents and what *)
(* it returns is decided by its own top_k, never by the k the other call   *)
(* wrote: nothing, or the best top_k of the corpus.                        *)
C30_RetrievalUsesOwnTopK ==
    \A i \in DOMAIN pipelines :
        Retrieved(i) =>
            /\ pipelines[i].docs[1] <= PipelineTopK(pipelines[i].node)
            /\ pipelines[i].docs[1] \in {0, Min(PipelineTopK(pipelines[i].node), CorpusSize)}

(* A RAG call suspended at the validator's await retrieved its 5 documents *)
(* from the retriever on which a Refine call of the same persona wrote its *)
(* own k just before or after                                              *)
C30_InterleavedOnSharedRetriever ==
    /\ pipelines # <<>>
    /\ SamePersona
    /\ bm25_installed
    /\ pipelines[1].node = "langchain_rag" /\ pipelines[1].at = "validate"
    /\ pipelines[2].node = "refine_rag" /\ pipelines[2].at = "draft"
    /\ pipelines[1].docs = Some(RagTopK)
    /\ pipelines[2].docs = Some(Min(RefineTopK, CorpusSize))
    /\ retriever_cache[pipelines[1].mentor_id] # None
====
